---- MODULE Spec2Model ----
(***************************************************************************)
(* Verification model of claude-code-skill-activator.                      *)
(*                                                                         *)
(*  - RateLimiter and AIClient.generate (src/src/index_generator.py)       *)
(*  - SkillActivator._load_all_skills   (src/src/skill_activator.py)       *)
(*                                                                         *)
(* Time is counted in ticks of 0.1 s, the resolution of the limiter's      *)
(* safety margin (index_generator.py:120); the clock is taken to be        *)
(* non-decreasing and time.sleep(d) to last at least d.                    *)
(***************************************************************************)
EXTENDS Integers, Sequences, FiniteSets, TLC

\* ---------------------------------------------------------------- bounds
\* generate calls made on one client
MaxCalls == 2
\* largest configured max_retries
MaxRetries == 2
\* largest number of configured fallback models
MaxFallbacks == 1
\* largest configured rate_limit_rpm
MaxRpm == 2
\* wait_if_needed calls made directly on one limiter
MaxGateCalls == 4

\* ------------------------------------------------------ program constants
\* the sliding window of wait_if_needed: 60 s
Window == 600
\* the "+0.1 buffer" of wait_if_needed
Buffer == 1

VARIABLES
  \* AIConfig / AIClient / RateLimiter
  config,              \* AIConfig: model, fallback_models, max_retries, ...
  current_model,       \* AIClient.current_model
  request_times,       \* RateLimiter.request_times
  last_request_time,   \* RateLimiter.last_request_time
  \* locals of the running generate call
  pc,                  \* position in generate
  models_to_try,
  model_idx,           \* 1-based position in models_to_try
  retry,               \* 0-based retry index
  last_error,
  exc,                 \* the exception the except clause is handling (e)
  result,              \* what the call returned or raised
  \* environment
  clock,               \* time.time()
  \* history
  calls,               \* generate calls started so far
  trace,               \* gate passes and requests of the running call, in order
  attempts,            \* per position of models_to_try: attempts begun in this call
  notfound,            \* the not-found failures of this call, each with the
                       \* number of requests issued before it was handled
  last_failure,        \* the failure the except clause handled last in this call
  recorded,            \* the timestamps recorded by the calls made directly
                       \* on the limiter, in order
  primary,             \* config.model at construction
  model_before,        \* config.model when the running call started
  prev_success_idx,    \* position of the model the previous call succeeded on (0: none)
  gate_errors,         \* the calls made directly on the limiter that raised
  \* SkillActivator
  skill_paths,         \* SkillActivator.skill_paths: the source of each directory,
                       \* highest priority first
  skills,              \* SkillActivator.skills: name -> SkillMetadata
  pos,                 \* the directory _load_all_skills is at (0: not started)
  phase,               \* "init", "docs", "index", "done"; "raised": an
                       \* exception left the constructor
  fs,                  \* what was read so far: per directory and name, the
                       \* document and the artifact entry found there
  HAS_YAML,            \* the module-level flag: import yaml succeeded
  \* one merge of an artifact entry into an existing record
  merge_existing,
  merge_indexed,
  merge_result,
  \* a detect_skills call
  user_message,        \* the message given to detect_skills
  override_threshold,  \* SkillActivator.override_threshold: <<>> for None, <<t>>
                       \* for a threshold of t hundredths
  activator_config,    \* SkillActivator.config: confidence_threshold, max_suggestions
  insertion_order,     \* the names of self.skills in the order of the dict
  matches,             \* what detect_skills returned: name and score, in order
  considered,          \* the loop of detect_skills: per skill that auto-activates,
                       \* its score and the threshold applied to it
  detected,            \* detect_skills has returned
  \* calls of _calculate_match_score on a keyword list and on the list with
  \* one more keyword
  score_keywords,      \* user_keywords of the first call
  extra_keyword,
  scored_skill,
  score_message,       \* original_message of both calls
  score_before,        \* raw score for user_keywords
  score_after,         \* raw score for user_keywords + [extra_keyword]
  scored,
  score_raised,        \* an exception left the call under study
  \* a generate_index call of an IndexGenerator
  languages,           \* AIConfig.languages
  verbose,
  all_skills,          \* scan_skills_directory: the names that have a SKILL.md,
                       \* in the order of iterdir
  unreadable,          \* the names whose SKILL.md cannot be read
  skills_filter,       \* the names of skills_filter ({}: None or empty)
  output_path,         \* the name of the output file in skills_path
  files,               \* the index files of skills_path: name -> content
  files_before,        \* files when generate_index was called
  index,               \* index["skills"] of the running call: name -> entry
  gen_skills,          \* skills: the names the loop goes through, in order
  gen_i,               \* i of the loop (1-based)
  gen_pc,              \* "idle", "loop", "extract", "returned"; "raised": an
                       \* exception left generate_index
  gen_out,             \* the markers printed and the requests made, in order
  gen_requests,        \* requests made for the skill the loop is at
  gen_responses,       \* per skill taken through extract_skill_metadata, the
                       \* outcome of client.generate
  \* a run of the hook script user-prompt-submit.py
  hook_stdin,          \* what is on standard input
  hook_installed,      \* skill_activator.py is beside the hooks directory
  hook_fails,          \* the activator raises while it loads or matches
  hook_stdout,         \* the text printed
  hook_exit,           \* the exit status (-1: still running)
  \* the layers that show the matches of detect_skills
  user_config,         \* load_user_config(): output_format, max_suggestions
  activator_mode,      \* SkillActivator.config['mode']
  show_layer,          \* "none"; the layer that ran: "process_message",
                       \* "hook", "find_skills"
  shown,               \* the skills shown, in order: name, group, percentage
  \* a call of _extract_keywords
  extract_text,        \* the text given
  extracted,           \* the list returned
  extract_done,
  \* the construction of a SkillActivator
  constructor_config,  \* the config argument: the keys it has
  artifact_sections    \* the global sections of the INDEX.yaml loaded

aiVars == <<config, current_model, request_times, last_request_time, pc,
            models_to_try, model_idx, retry, last_error, exc, result, clock,
            calls, trace, attempts, notfound, last_failure, recorded, primary, model_before, prev_success_idx,
            gate_errors>>

loadVars == <<skill_paths, skills, pos, phase, fs, HAS_YAML>>

mergeVars == <<merge_existing, merge_indexed, merge_result>>

detectVars == <<user_message, override_threshold, activator_config, insertion_order,
               matches, considered, detected>>

scoreVars == <<score_keywords, extra_keyword, scored_skill, score_message,
              score_before, score_after, scored, score_raised>>

queryVars == <<detectVars, scoreVars>>

genVars == <<languages, verbose, all_skills, unreadable, skills_filter, output_path,
            files, files_before, index, gen_skills, gen_i, gen_pc, gen_out,
            gen_requests, gen_responses>>

hookVars == <<hook_stdin, hook_installed, hook_fails, hook_stdout, hook_exit>>

showVars == <<user_config, activator_mode, show_layer, shown>>

extractVars == <<extract_text, extracted, extract_done>>

buildVars == <<constructor_config, artifact_sections>>

toolVars == <<genVars, hookVars, showVars, extractVars, buildVars>>

vars == <<aiVars, loadVars, mergeVars, queryVars, toolVars>>

\* no generate_index call under study
GeneratorIdle ==
  /\ languages = <<"english">>
  /\ verbose = FALSE
  /\ all_skills = <<>>
  /\ unreadable = {}
  /\ skills_filter = {}
  /\ output_path = "INDEX.yaml"
  /\ files = <<>>
  /\ files_before = <<>>
  /\ index = <<>>
  /\ gen_skills = <<>>
  /\ gen_i = 0
  /\ gen_pc = "idle"
  /\ gen_out = <<>>
  /\ gen_requests = 0
  /\ gen_responses = <<>>

\* no run of the hook under study
HookIdle ==
  /\ hook_stdin = [shape |-> "none", prompt |-> <<>>]
  /\ hook_installed = FALSE
  /\ hook_fails = FALSE
  /\ hook_stdout = <<>>
  /\ hook_exit = -1

\* nothing shown
ShowIdle ==
  /\ user_config = [output_format |-> "classic", max_suggestions |-> 3]
  /\ activator_mode = "suggest"
  /\ show_layer = "none"
  /\ shown = <<>>

\* no _extract_keywords call under study
ExtractIdle ==
  /\ extract_text = <<>>
  /\ extracted = <<>>
  /\ extract_done = FALSE

\* the config argument of SkillActivator(): the keys given, each <<>> when
\* it is not given
ConstructorConfig(confidence_threshold, max_suggestions) ==
  [confidence_threshold |-> confidence_threshold, max_suggestions |-> max_suggestions]

\* the activation_config and keyword_weights sections of an INDEX.yaml
\* (weights in halves, as exact_match)
Sections(confidence_threshold, max_suggestions, w) ==
  [activation_config |-> [confidence_threshold |-> confidence_threshold,
                          max_suggestions |-> max_suggestions],
   keyword_weights |-> [exact_match |-> w]]

\* a SkillActivator built with no config argument, by an artifact with
\* the sections generate_index writes
BuildIdle ==
  /\ constructor_config = ConstructorConfig(<<>>, <<>>)
  /\ artifact_sections = Sections(50, 3, 6)

ToolsIdle == GeneratorIdle /\ HookIdle /\ ShowIdle /\ ExtractIdle /\ BuildIdle

\* ------------------------------------------------------------ input sets
ModelNames == {"x", "y"}

\* sequences over S of length at most n
RECURSIVE SeqsUpTo(_, _)
SeqsUpTo(S, n) ==
  IF n = 0 THEN {<<>>}
  ELSE LET shorter == SeqsUpTo(S, n - 1)
       IN shorter \cup {Append(s, e) : s \in {t \in shorter : Len(t) = n - 1}, e \in S}

\* An exception raised by an attempt, by the signals its text carries:
\*   rate     : '429' in str(e) or 'rate' in str(e).lower()
\*   notfound : '404' in str(e) or 'not found' in str(e).lower()
\*   server   : one of '500','502','503','504' in str(e)
Exc(r, n, s) == [kind |-> "Exception", rate |-> r, notfound |-> n, server |-> s]
NoneError == [kind |-> "None", rate |-> FALSE, notfound |-> FALSE, server |-> FALSE]
\* "list index out of range", raised by request_times[0] on an empty list
IndexError == [kind |-> "IndexError", rate |-> FALSE, notfound |-> FALSE, server |-> FALSE]
\* one error per class and the two that carry the signals of two classes
Errors ==
  {Exc(TRUE, FALSE, FALSE), Exc(FALSE, TRUE, FALSE), Exc(FALSE, FALSE, TRUE),
   Exc(FALSE, FALSE, FALSE), Exc(TRUE, TRUE, FALSE), Exc(FALSE, TRUE, TRUE)}

\* time a request takes
Durations == {1}
\* time between two generate calls
IdleGaps == {Window}
\* time between two calls made directly on a limiter
Gaps == {0, 3, Window \div 2, Window}
\* by how much a sleep may exceed the time asked for
Overshoot == {0, 1}

Configs ==
  [model : {"x"},
   fallback_models : SeqsUpTo(ModelNames, MaxFallbacks),
   max_retries : 0..MaxRetries,
   retry_delay : {0, 20},
   rate_limit_rpm : 0..MaxRpm,
   rate_limit_delay : {0, 5}]

\* ---------------------------------------------------------- RateLimiter
Older(times, now) == SelectSeq(times, LAMBDA t : now - t < Window)

\* a limiter that never sleeps for the minimum delay
AfterMinDelay_NoSleep(now, last, min_delay, o) == now

\* the time after "Always enforce minimum delay between requests"
AfterMinDelay(now, last, min_delay, o) ==
  LET time_since_last == now - last
  IN IF time_since_last < min_delay
     THEN now + (min_delay - time_since_last) + o
     ELSE now

\* a limiter that lets one request too many through
RpmReached_OffByOne(n, rpm) == n > rpm

\* "If we've hit RPM limit"
RpmReached(n, rpm) == n >= rpm

\* RateLimiter.wait_if_needed entered at time now; o1, o2: overshoot of the
\* two sleeps. Yields the limiter's fields, the time at exit and whether
\* the call completed (request_times[0] raises on an empty list).
WaitIfNeeded(times, last, rpm, min_delay, now, o1, o2) ==
  LET now1 == AfterMinDelay(now, last, min_delay, o1)
      times1 == Older(times, now1)
  IN IF RpmReached(Len(times1), rpm)
     THEN IF Len(times1) = 0
          THEN [ok |-> FALSE, times |-> times1, last |-> last, now |-> now1]
          ELSE LET oldest == times1[1]
                   wait_time == Window - (now1 - oldest) + Buffer
                   now2 == IF wait_time > 0 THEN now1 + wait_time + o2 ELSE now1
                   times2 == IF wait_time > 0 THEN Older(times1, now2) ELSE times1
               IN [ok |-> TRUE, times |-> Append(times2, now2),
                   last |-> now2, now |-> now2]
     ELSE [ok |-> TRUE, times |-> Append(times1, now1),
           last |-> now1, now |-> now1]

\* ------------------------------------------------------------- AIClient
\* an except clause that tests for not-found first
Classify_NotFoundFirst(e) ==
  IF e.notfound THEN "notfound"
  ELSE IF e.rate THEN "rate"
  ELSE IF e.server THEN "server"
  ELSE "other"

\* the branch of the except clause an error takes (first match wins)
Classify(e) ==
  IF e.rate THEN "rate"
  ELSE IF e.notfound THEN "notfound"
  ELSE IF e.server THEN "server"
  ELSE "other"

\* a backoff that does not double the wait of a rate-limited attempt
RetrySleep_NoDouble(class, r, cfg) ==
  CASE class = "rate" -> <<cfg.retry_delay * (r + 1)>>
    [] class = "notfound" -> <<>>
    [] class = "server" -> <<cfg.retry_delay * (r + 1)>>
    [] OTHER -> IF r < cfg.max_retries - 1 THEN <<cfg.retry_delay>> ELSE <<>>

\* the time.sleep of the except clause: <<>> when none is made
RetrySleep(class, r, cfg) ==
  CASE class = "rate" -> <<cfg.retry_delay * (r + 1) * 2>>
    [] class = "notfound" -> <<>>
    [] class = "server" -> <<cfg.retry_delay * (r + 1)>>
    [] OTHER -> IF r < cfg.max_retries - 1 THEN <<cfg.retry_delay>> ELSE <<>>

\* a retry loop that not-found does not break
LeavesModel_NoBreak(class, r, cfg) == r + 1 >= cfg.max_retries

\* a retry loop that makes one attempt more
LeavesModel_OneMore(class, r, cfg) ==
  class = "notfound" \/ r >= cfg.max_retries

\* does the except clause leave the retry loop of the current model
LeavesModel(class, r, cfg) ==
  class = "notfound" \/ r + 1 >= cfg.max_retries

\* a handler that keeps the first error it saw
LastErrorAfter_KeepFirst(previous, e) ==
  IF previous.kind = "None" THEN e ELSE previous

\* last_error after "last_error = e"
LastErrorAfter(previous, e) == e

\* a request that leaves the model it used in the configuration
RestoredModel_Sticky(original_model, model) == model

\* config.model after _request_with_model (the finally clause)
RestoredModel(original_model, model) == original_model

NoFailure ==
  [valid |-> FALSE, idx |-> 0, retry |-> 0, class |-> "", sleeps |-> <<>>,
   error |-> NoneError]

\* an AIClient after construction
ClientInit ==
  /\ config \in Configs
  /\ current_model = config.model
  /\ request_times = <<>>
  /\ last_request_time = 0
  /\ pc = "idle"
  /\ models_to_try = <<>>
  /\ model_idx = 0
  /\ retry = 0
  /\ last_error = NoneError
  /\ exc = NoneError
  /\ result = [kind |-> "none", error |-> NoneError]
  /\ clock = 2 * Window
  /\ calls = 0
  /\ trace = <<>>
  /\ attempts = <<>>
  /\ notfound = <<>>
  /\ last_failure = NoFailure
  /\ recorded = <<>>
  /\ primary = config.model
  /\ model_before = config.model
  /\ prev_success_idx = 0
  /\ gate_errors = 0

\* generate is entered: models_to_try is built; with max_retries < 1 the
\* loops make no attempt and the call raises at once
GenerateStart ==
  /\ pc \in {"idle", "returned", "raised"}
  /\ calls < MaxCalls
  /\ \E d \in IdleGaps :
       LET models == <<config.model>> \o config.fallback_models
       IN /\ clock' = clock + d
          /\ calls' = calls + 1
          /\ models_to_try' = models
          /\ last_error' = NoneError
          /\ exc' = NoneError
          /\ trace' = <<>>
          /\ attempts' = [i \in 1..Len(models) |-> 0]
          /\ notfound' = <<>>
          /\ last_failure' = NoFailure
          /\ model_before' = config.model
          /\ prev_success_idx' = IF pc = "returned" THEN model_idx ELSE 0
          /\ retry' = 0
          /\ IF config.max_retries > 0
             THEN /\ model_idx' = 1
                  /\ current_model' = models[1]
                  /\ pc' = "gate"
                  /\ result' = [kind |-> "none", error |-> NoneError]
             ELSE /\ model_idx' = Len(models)
                  /\ current_model' = models[Len(models)]
                  /\ pc' = "raised"
                  /\ result' = [kind |-> "raised", error |-> NoneError]
  /\ UNCHANGED <<config, request_times, last_request_time, recorded, primary,
                 gate_errors>>
  /\ UNCHANGED <<loadVars, mergeVars, queryVars, toolVars>>

\* self.rate_limiter.wait_if_needed() at the head of an attempt
Gate ==
  /\ pc = "gate"
  /\ LET w == WaitIfNeeded(request_times, last_request_time,
                           config.rate_limit_rpm, config.rate_limit_delay,
                           clock, 0, 0)
     IN   /\ request_times' = w.times
          /\ last_request_time' = w.last
          /\ clock' = w.now
          /\ attempts' = [attempts EXCEPT ![model_idx] = @ + 1]
          /\ IF w.ok
             THEN /\ pc' = "request"
                  /\ trace' = Append(trace, [ev |-> "gate", idx |-> model_idx,
                                             model |-> models_to_try[model_idx]])
                  /\ UNCHANGED exc
             ELSE /\ pc' = "except"
                  /\ exc' = IndexError
                  /\ UNCHANGED trace
  /\ UNCHANGED <<recorded, gate_errors>>
  /\ UNCHANGED <<config, current_model, models_to_try, model_idx, retry, result,
                 last_error, calls, notfound, last_failure, primary, model_before,
                 prev_success_idx>>
  /\ UNCHANGED <<loadVars, mergeVars, queryVars, toolVars>>

\* self._request_with_model(messages, system, model): config.model is set to
\* model for the request and restored by the finally clause
Request ==
  /\ pc = "request"
  /\ \E d \in Durations :
       LET model == models_to_try[model_idx]
           original_model == config.model
           during == [config EXCEPT !.model = model]
       IN /\ clock' = clock + d
          /\ trace' = Append(trace, [ev |-> "request", idx |-> model_idx,
                                     model |-> during.model])
          /\ config' = [config EXCEPT !.model = RestoredModel(original_model, model)]
          /\ \/ /\ pc' = "returned"
                /\ result' = [kind |-> "returned", error |-> NoneError]
                /\ UNCHANGED exc
             \/ \E e \in Errors :
                  /\ pc' = "except"
                  /\ exc' = e
                  /\ UNCHANGED result
  /\ UNCHANGED <<current_model, request_times, last_request_time, models_to_try,
                 model_idx, retry, last_error, calls, attempts, notfound,
                 last_failure, recorded, primary, model_before, prev_success_idx,
                 gate_errors>>
  /\ UNCHANGED <<loadVars, mergeVars, queryVars, toolVars>>

\* loops that go back to the previous model when a retry is due
AfterFailure_Revisit(class, r, idx, models, cfg) ==
  IF ~LeavesModel(class, r, cfg)
  THEN [pc |-> "gate", model_idx |-> IF idx > 1 THEN idx - 1 ELSE idx, retry |-> r + 1]
  ELSE IF idx < Len(models)
  THEN [pc |-> "gate", model_idx |-> idx + 1, retry |-> 0]
  ELSE [pc |-> "raised", model_idx |-> idx, retry |-> r]

\* loops that pass the limiter on the first attempt of a model only
AfterFailure_SkipGate(class, r, idx, models, cfg) ==
  IF ~LeavesModel(class, r, cfg)
  THEN [pc |-> "request", model_idx |-> idx, retry |-> r + 1]
  ELSE IF idx < Len(models)
  THEN [pc |-> "gate", model_idx |-> idx + 1, retry |-> 0]
  ELSE [pc |-> "raised", model_idx |-> idx, retry |-> r]

\* where the loops of generate go after the except clause
AfterFailure(class, r, idx, models, cfg) ==
  IF ~LeavesModel(class, r, cfg)
  THEN [pc |-> "gate", model_idx |-> idx, retry |-> r + 1]
  ELSE IF idx < Len(models)
  THEN [pc |-> "gate", model_idx |-> idx + 1, retry |-> 0]
  ELSE [pc |-> "raised", model_idx |-> idx, retry |-> r]

\* the except clause, and the loop heads it falls to
HandleError ==
  /\ pc = "except"
  /\ LET class == Classify(exc)
         sleeps == RetrySleep(class, retry, config)
         slept == IF sleeps = <<>> THEN 0 ELSE sleeps[1]
         next == AfterFailure(class, retry, model_idx, models_to_try, config)
     IN /\ clock' = clock + slept
        /\ last_failure' = [valid |-> TRUE, idx |-> model_idx, retry |-> retry,
                            class |-> class, sleeps |-> sleeps, error |-> exc]
        /\ notfound' = IF class = "notfound"
                       THEN Append(notfound, [idx |-> model_idx, nreq |-> Len(trace)])
                       ELSE notfound
        /\ last_error' = LastErrorAfter(last_error, exc)
        /\ pc' = next.pc
        /\ model_idx' = next.model_idx
        /\ retry' = next.retry
        /\ current_model' = models_to_try[next.model_idx]
        /\ result' = IF next.pc = "raised"
                     THEN [kind |-> "raised", error |-> last_error']
                     ELSE result
  /\ UNCHANGED <<config, request_times, last_request_time, models_to_try,
                 exc, calls, trace, attempts, recorded, primary,
                 model_before, prev_success_idx, gate_errors>>
  /\ UNCHANGED <<loadVars, mergeVars, queryVars, toolVars>>

\* -------------------------------------------------------- SkillActivator
\* Text is kept as a sequence of strings, a confidence threshold in
\* hundredths (50 is 0.5).
Names == {"debug-helper"}
AllSources == <<"project", "user", "system", "custom">>

\* SkillMetadata
Metadata(name, path, source, priority, enforcement, description, kk, ke, tags, use_cases, intent_patterns, auto_activate, confidence_threshold) ==
  [present |-> TRUE, name |-> name, path |-> path, source |-> source,
   priority |-> priority, enforcement |-> enforcement, description |-> description,
   keywords_korean |-> kk, keywords_english |-> ke, tags |-> tags,
   use_cases |-> use_cases, intent_patterns |-> intent_patterns,
   auto_activate |-> auto_activate, confidence_threshold |-> confidence_threshold]

\* no record, no document, no artifact entry
NoRecord ==
  [present |-> FALSE, name |-> "", path |-> <<>>, source |-> "",
   priority |-> "", enforcement |-> "", description |-> <<>>,
   keywords_korean |-> <<>>, keywords_english |-> <<>>, tags |-> <<>>,
   use_cases |-> <<>>, intent_patterns |-> <<>>,
   auto_activate |-> FALSE, confidence_threshold |-> 0]

\* What a SKILL.md gives: frontmatter is whether a metadata block was
\* parsed to a non-empty mapping, the other fields what frontmatter.get
\* yields for them (the default of the get for a missing key).
Document(frontmatter, priority, description, ke, tags, use_cases, auto_activate, confidence_threshold) ==
  [present |-> TRUE, frontmatter |-> frontmatter, priority |-> priority,
   enforcement |-> "suggested", description |-> description,
   keywords_korean |-> <<>>, keywords_english |-> ke, tags |-> tags,
   use_cases |-> use_cases, auto_activate |-> auto_activate,
   confidence_threshold |-> confidence_threshold, fault |-> "none"]

NoDocument ==
  [present |-> FALSE, frontmatter |-> FALSE, priority |-> "",
   enforcement |-> "", description |-> <<>>,
   keywords_korean |-> <<>>, keywords_english |-> <<>>, tags |-> <<>>,
   use_cases |-> <<>>, auto_activate |-> FALSE, confidence_threshold |-> 0,
   fault |-> "none"]

\* A file that is not as the loader expects. Of a SKILL.md:
\*   "unreadable"     read_text raises;
\*   "not_mapping"    the block parses to a non-empty value that is not a
\*                    mapping (a list, a string), which only yaml.safe_load
\*                    can return;
\*   "bad_threshold"  a mapping whose confidence_threshold is no number.
\* Of an INDEX.yaml and its entries:
\*   "unparsable"     the file cannot be read or parsed, or has no 'skills';
\*   "skills_null"    the 'skills' value is null or not a mapping;
\*   "not_mapping"    the entry is not a mapping;
\*   "bad_threshold"  the entry's confidence_threshold is no number.
Faulty(file, fault) == [file EXCEPT !.fault = fault]

\* the documents a skill directory may hold
Documents ==
  { Document(TRUE, "medium", <<"Finds bugs">>, <<"debug", "error">>, <<>>, <<>>, TRUE, 50),
    Document(TRUE, "high", <<>>, <<>>, <<"doc-tag">>, <<"doc-case">>, FALSE, 70),
    Document(FALSE, "medium", <<>>, <<>>, <<>>, <<>>, TRUE, 50),
    Faulty(Document(TRUE, "medium", <<>>, <<>>, <<>>, <<>>, TRUE, 50), "unreadable"),
    Faulty(Document(TRUE, "medium", <<>>, <<>>, <<>>, <<>>, TRUE, 50), "not_mapping"),
    Faulty(Document(TRUE, "medium", <<>>, <<>>, <<>>, <<>>, TRUE, 50), "bad_threshold") }

\* _load_skill_from_directory(skill_dir, source) for a directory that has
\* a readable SKILL.md; root is the position of the skills directory
LoadSkillFromDirectory(doc, dir_name, root, source) ==
  IF doc.fault = "unreadable" THEN NoRecord
  ELSE IF ~doc.frontmatter
  THEN Metadata(dir_name, <<root, dir_name>>, source, "medium", "suggested",
                <<"Skill from ", dir_name>>, <<>>, <<>>, <<>>, <<>>, <<>>, TRUE, 50)
  ELSE Metadata(dir_name, <<root, dir_name>>, source, doc.priority, doc.enforcement,
                doc.description, doc.keywords_korean, doc.keywords_english,
                doc.tags, doc.use_cases, <<>>, doc.auto_activate,
                doc.confidence_threshold)

\* What an entry of the 'skills' mapping of an INDEX.yaml gives, by what
\* skill_data.get yields for each key; dir_exists: is there a directory of
\* the entry's name beside the artifact.
Entry(priority, description, kk, ke, tags, use_cases, intent_patterns, auto_activate, confidence_threshold, dir_exists) ==
  [present |-> TRUE, priority |-> priority, enforcement |-> "suggested",
   description |-> description, keywords_korean |-> kk, keywords_english |-> ke,
   tags |-> tags, use_cases |-> use_cases, intent_patterns |-> intent_patterns,
   auto_activate |-> auto_activate, confidence_threshold |-> confidence_threshold,
   dir_exists |-> dir_exists, fault |-> "none"]

NoEntry ==
  [present |-> FALSE, priority |-> "", enforcement |-> "",
   description |-> <<>>, keywords_korean |-> <<>>, keywords_english |-> <<>>,
   tags |-> <<>>, use_cases |-> <<>>, intent_patterns |-> <<>>,
   auto_activate |-> FALSE, confidence_threshold |-> 0, dir_exists |-> FALSE,
   fault |-> "none"]

\* the entries an artifact may hold for a name
Entries ==
  { Entry("medium", <<>>, <<>>, <<>>, <<"diagnostics">>, <<>>, <<>>, TRUE, 50, TRUE),
    [Entry("low", <<"From the index">>, <<"kr">>, <<"fix">>, <<"idx-tag">>, <<"idx-case">>,
           <<"fix.*bug">>, FALSE, 80, FALSE) EXCEPT !.enforcement = "required"],
    Entry("medium", <<>>, <<>>, <<>>, <<>>, <<>>, <<>>, TRUE, 50, TRUE),
    Faulty(Entry("medium", <<>>, <<>>, <<>>, <<>>, <<>>, <<>>, TRUE, 50, TRUE), "unparsable"),
    Faulty(Entry("medium", <<>>, <<>>, <<>>, <<>>, <<>>, <<>>, TRUE, 50, TRUE), "skills_null"),
    Faulty(Entry("medium", <<>>, <<>>, <<>>, <<>>, <<>>, <<>>, TRUE, 50, TRUE), "not_mapping"),
    Faulty(Entry("medium", <<>>, <<>>, <<>>, <<>>, <<>>, <<>>, TRUE, 50, TRUE), "bad_threshold") }

\* _load_skill_from_directory raises on the document: frontmatter.get on a
\* value that has no get (AttributeError), float() of a value that is no
\* number (ValueError); neither statement is in a try block
DocumentRaises(doc) == doc.fault \in {"not_mapping", "bad_threshold"}

\* _load_index_yaml raises on the entry: .items() of a 'skills' value that
\* has none (AttributeError), float() of a value that is no number
\* (ValueError); both statements are after the try block
EntryRaises(e) == e.fault \in {"skills_null", "bad_threshold"}

\* _load_index_yaml has no record for the entry: the file was not parsed
\* (return skills), or the entry is not a mapping (continue)
EntrySkipped(e) == e.fault \in {"unparsable", "not_mapping"}

\* the SkillMetadata _load_index_yaml builds for an entry
LoadIndexEntry(e, skill_name, root, source) ==
  Metadata(skill_name, IF e.dir_exists THEN <<root, skill_name>> ELSE <<root>>,
           source, e.priority, e.enforcement, e.description,
           e.keywords_korean, e.keywords_english, e.tags, e.use_cases,
           e.intent_patterns, e.auto_activate, e.confidence_threshold)

\* a merge in which the artifact's priority, threshold and auto_activate
\* always replace the record's
MergeIndexed_Unconditional(existing, indexed) ==
  [existing EXCEPT
     !.keywords_korean = IF @ = <<>> /\ indexed.keywords_korean # <<>>
                         THEN indexed.keywords_korean ELSE @,
     !.keywords_english = IF @ = <<>> /\ indexed.keywords_english # <<>>
                          THEN indexed.keywords_english ELSE @,
     !.tags = IF @ = <<>> /\ indexed.tags # <<>> THEN indexed.tags ELSE @,
     !.use_cases = IF @ = <<>> /\ indexed.use_cases # <<>> THEN indexed.use_cases ELSE @,
     !.priority = indexed.priority,
     !.confidence_threshold = indexed.confidence_threshold,
     !.auto_activate = indexed.auto_activate]

\* a merge that leaves the record's priority, threshold and auto_activate
\* alone
MergeIndexed_NoOverride(existing, indexed) ==
  [existing EXCEPT
     !.keywords_korean = IF @ = <<>> /\ indexed.keywords_korean # <<>>
                         THEN indexed.keywords_korean ELSE @,
     !.keywords_english = IF @ = <<>> /\ indexed.keywords_english # <<>>
                          THEN indexed.keywords_english ELSE @,
     !.tags = IF @ = <<>> /\ indexed.tags # <<>> THEN indexed.tags ELSE @,
     !.use_cases = IF @ = <<>> /\ indexed.use_cases # <<>> THEN indexed.use_cases ELSE @]

\* a merge that also takes the artifact's description when the record has
\* none
MergeIndexed_FillsDescription(existing, indexed) ==
  [existing EXCEPT
     !.description = IF @ = <<>> /\ indexed.description # <<>>
                     THEN indexed.description ELSE @,
     !.keywords_korean = IF @ = <<>> /\ indexed.keywords_korean # <<>>
                         THEN indexed.keywords_korean ELSE @,
     !.keywords_english = IF @ = <<>> /\ indexed.keywords_english # <<>>
                          THEN indexed.keywords_english ELSE @,
     !.tags = IF @ = <<>> /\ indexed.tags # <<>> THEN indexed.tags ELSE @,
     !.use_cases = IF @ = <<>> /\ indexed.use_cases # <<>> THEN indexed.use_cases ELSE @,
     !.priority = IF indexed.priority # "medium" THEN indexed.priority ELSE @,
     !.confidence_threshold = IF indexed.confidence_threshold # 50
                              THEN indexed.confidence_threshold ELSE @,
     !.auto_activate = IF ~indexed.auto_activate THEN FALSE ELSE @]

\* "Merge: INDEX.yaml enhances SKILL.md data": existing after the merge
MergeIndexed(existing, indexed) ==
  [existing EXCEPT
     !.keywords_korean = IF @ = <<>> /\ indexed.keywords_korean # <<>>
                         THEN indexed.keywords_korean ELSE @,
     !.keywords_english = IF @ = <<>> /\ indexed.keywords_english # <<>>
                          THEN indexed.keywords_english ELSE @,
     !.tags = IF @ = <<>> /\ indexed.tags # <<>> THEN indexed.tags ELSE @,
     !.use_cases = IF @ = <<>> /\ indexed.use_cases # <<>> THEN indexed.use_cases ELSE @,
     !.priority = IF indexed.priority # "medium" THEN indexed.priority ELSE @,
     !.confidence_threshold = IF indexed.confidence_threshold # 50
                              THEN indexed.confidence_threshold ELSE @,
     !.auto_activate = IF ~indexed.auto_activate THEN FALSE ELSE @]

\* the sub-sequences of s, order kept
RECURSIVE SubSeqsOf(_)
SubSeqsOf(s) ==
  IF s = <<>> THEN {<<>>}
  ELSE LET rest == SubSeqsOf(Tail(s))
       IN rest \cup {<<Head(s)>> \o t : t \in rest}

\* nothing read yet in any directory
NothingRead(paths) ==
  [i \in 1..Len(paths) |-> [n \in Names |-> [doc |-> NoDocument, entry |-> NoEntry]]]

\* the candidate directories of _discover_skill_paths, in the order it
\* looks at them, by source: <project>/.claude/skills, <project>/skills, the
\* user directory, the system directory, and two directories of
\* CLAUDE_SKILLS_PATH
AllDirectories == <<"project", "project", "user", "system", "custom", "custom">>

\* self.skills[skill.name] = skill in which a record of the name is kept
Recorded_KeepExisting(existing, skill) == IF existing.present THEN existing ELSE skill

\* self.skills[skill.name] = skill: the record under the name afterwards
Recorded(existing, skill) == skill

\* _discover_skill_paths: the candidates that exist, in the order of the
\* candidates
DiscoverFrom(candidates) ==
  /\ phase = "init"
  /\ \E paths \in SubSeqsOf(candidates) :
       /\ skill_paths' = paths
       /\ fs' = NothingRead(paths)
       /\ skills' = [n \in Names |-> NoRecord]
       /\ pos' = Len(paths)
       /\ phase' = IF paths = <<>> THEN "done" ELSE "docs"
  /\ UNCHANGED HAS_YAML
  /\ UNCHANGED <<aiVars, mergeVars, queryVars, toolVars>>

\* _discover_skill_paths with one project directory and one custom path
DiscoverSkillPaths == DiscoverFrom(AllSources)

\* _discover_skill_paths with every candidate directory
DiscoverDirectories == DiscoverFrom(AllDirectories)

\* one directory item of the scan: self.skills[skill.name] = skill
ScanDirectory ==
  /\ phase = "docs"
  /\ \E n \in Names, doc \in Documents :
       /\ ~fs[pos][n].doc.present
       /\ doc.fault = "not_mapping" => HAS_YAML
       /\ fs' = [fs EXCEPT ![pos][n].doc = doc]
       /\ IF DocumentRaises(doc)
          THEN /\ phase' = "raised"
               /\ UNCHANGED skills
          ELSE /\ LET skill == LoadSkillFromDirectory(doc, n, pos, skill_paths[pos])
                  IN skills' = IF skill.present
                               THEN [skills EXCEPT ![n] = Recorded(skills[n], skill)]
                               ELSE skills
               /\ UNCHANGED phase
  /\ UNCHANGED <<skill_paths, pos, HAS_YAML>>
  /\ UNCHANGED <<aiVars, mergeVars, queryVars, toolVars>>

\* the scan of the directory is over: on to its INDEX.yaml
ScanDone ==
  /\ phase = "docs"
  /\ phase' = "index"
  /\ UNCHANGED <<skill_paths, skills, pos, fs, HAS_YAML>>
  /\ UNCHANGED <<aiVars, mergeVars, queryVars, toolVars>>

\* one entry of the directory's INDEX.yaml: merged into the record of its
\* name, or set as a new record
MergeIndexEntry ==
  /\ phase = "index"
  /\ HAS_YAML
  /\ \E n \in Names, e \in Entries :
       /\ ~fs[pos][n].entry.present
       /\ fs' = [fs EXCEPT ![pos][n].entry = e]
       /\ IF EntryRaises(e)
          THEN /\ phase' = "raised"
               /\ UNCHANGED skills
          ELSE /\ LET indexed_skill == LoadIndexEntry(e, n, pos, skill_paths[pos])
                  IN skills' = IF EntrySkipped(e) THEN skills
                               ELSE [skills EXCEPT
                                       ![n] = IF skills[n].present
                                              THEN MergeIndexed(skills[n], indexed_skill)
                                              ELSE indexed_skill]
               /\ UNCHANGED phase
  /\ UNCHANGED <<skill_paths, pos, HAS_YAML>>
  /\ UNCHANGED <<aiVars, mergeVars, queryVars, toolVars>>

\* the directory is done: on to the next one of reversed(self.skill_paths)
NextDirectory ==
  /\ phase = "index"
  /\ pos' = pos - 1
  /\ phase' = IF pos = 1 THEN "done" ELSE "docs"
  /\ UNCHANGED <<skill_paths, skills, fs, HAS_YAML>>
  /\ UNCHANGED <<aiVars, mergeVars, queryVars, toolVars>>

\* a SkillActivator before _discover_skill_paths
RegistryInit ==
  /\ skill_paths = <<>>
  /\ skills = <<>>
  /\ pos = 0
  /\ phase = "init"
  /\ fs = <<>>

\* a process in which import yaml succeeded
YamlImported == HAS_YAML = TRUE

\* no query under study
QueryIdle ==
  /\ user_message = <<>>
  /\ override_threshold = <<>>
  /\ activator_config = [confidence_threshold |-> 50, max_suggestions |-> 3]
  /\ insertion_order = <<>>
  /\ matches = <<>>
  /\ considered = <<>>
  /\ detected = FALSE
  /\ score_keywords = <<>>
  /\ extra_keyword = <<>>
  /\ scored_skill = NoRecord
  /\ score_message = <<>>
  /\ score_before = 0
  /\ score_after = 0
  /\ scored = FALSE
  /\ score_raised = FALSE

\* no merge under study
MergeIdle ==
  /\ merge_existing = NoRecord
  /\ merge_indexed = NoRecord
  /\ merge_result = NoRecord

\* a client that is never used
IdleClient ==
  /\ ClientInit
  /\ config.fallback_models = <<>>
  /\ config.max_retries = 0
  /\ config.retry_delay = 0
  /\ config.rate_limit_rpm = 0
  /\ config.rate_limit_delay = 0

Init == ClientInit /\ RegistryInit /\ YamlImported /\ MergeIdle /\ QueryIdle /\ ToolsIdle

\* wait_if_needed called on a limiter by a caller other than generate
WaitIfNeededCall ==
  /\ pc = "idle"
  /\ Len(recorded) + gate_errors < MaxGateCalls
  /\ \E d \in Gaps, o1 \in Overshoot, o2 \in Overshoot :
       LET w == WaitIfNeeded(request_times, last_request_time,
                             config.rate_limit_rpm, config.rate_limit_delay,
                             clock + d, o1, o2)
       IN /\ request_times' = w.times
          /\ last_request_time' = w.last
          /\ clock' = w.now
          /\ recorded' = IF w.ok THEN Append(recorded, w.now) ELSE recorded
          /\ gate_errors' = IF w.ok THEN gate_errors ELSE gate_errors + 1
  /\ UNCHANGED <<config, current_model, pc, models_to_try, model_idx, retry,
                 last_error, exc, result, calls, trace, attempts, notfound,
                 last_failure, primary, model_before, prev_success_idx>>
  /\ UNCHANGED <<loadVars, mergeVars, queryVars, toolVars>>

NextRL == WaitIfNeededCall

\* a limiter of its own, built with the limits of some configuration
InitRL ==
  /\ ToolsIdle
  /\ ClientInit
  /\ RegistryInit
  /\ YamlImported
  /\ MergeIdle
  /\ QueryIdle
  /\ config.fallback_models = <<>>
  /\ config.max_retries = 0
  /\ config.retry_delay = 0

SpecRL == InitRL /\ [][NextRL]_vars

NextAI == GenerateStart \/ Gate \/ Request \/ HandleError

\* a client with the default delays (rate_limit_delay 0.5 s, retry_delay
\* 2.0 s) and a limiter that raises (rpm 0) or holds every second request
\* back (rpm 1)
InitAI ==
  /\ ToolsIdle
  /\ ClientInit
  /\ RegistryInit
  /\ YamlImported
  /\ MergeIdle
  /\ QueryIdle
  /\ config.rate_limit_delay = 5
  /\ config.retry_delay = 20
  /\ config.rate_limit_rpm \in {0, 1}

SpecAI == InitAI /\ [][NextAI]_vars

\* the first generate call of a client
GenerateFirst == calls = 0 /\ GenerateStart

NextAILive == GenerateFirst \/ Gate \/ Request \/ HandleError

\* one generate call in which every request and every sleep returns: the
\* running call takes its next step
SpecAILive ==
  /\ InitAI /\ [][NextAILive]_vars
  /\ WF_vars(Gate) /\ WF_vars(Request) /\ WF_vars(HandleError)

NextLoad == DiscoverSkillPaths \/ ScanDirectory \/ ScanDone \/ MergeIndexEntry
            \/ NextDirectory

\* a SkillActivator at the head of its constructor, no client at work
InitLoad ==
  /\ ToolsIdle
  /\ IdleClient
  /\ RegistryInit
  /\ HAS_YAML \in BOOLEAN
  /\ MergeIdle
  /\ QueryIdle

SpecLoad == InitLoad /\ [][NextLoad]_vars

\* the documents and the artifact entry of the directories of SpecPaths
PlainDocuments ==
  { Document(TRUE, "medium", <<"Finds bugs">>, <<"debug", "error">>, <<>>, <<>>, TRUE, 50),
    Document(TRUE, "high", <<>>, <<>>, <<"doc-tag">>, <<"doc-case">>, FALSE, 70) }
PlainEntries ==
  { [Entry("low", <<"From the index">>, <<"kr">>, <<"fix">>, <<"idx-tag">>, <<"idx-case">>,
            <<"fix.*bug">>, FALSE, 80, FALSE) EXCEPT !.enforcement = "required"] }

\* the scan of an item whose document is one of PlainDocuments
ScanPlain ==
  /\ ScanDirectory
  /\ \A n \in Names : fs'[pos][n].doc \in PlainDocuments \cup {NoDocument}

\* the merge of an entry of PlainEntries
MergePlain ==
  /\ MergeIndexEntry
  /\ \A n \in Names : fs'[pos][n].entry \in PlainEntries \cup {NoEntry}

NextPaths == DiscoverDirectories \/ ScanPlain \/ ScanDone \/ MergePlain \/ NextDirectory

\* a SkillActivator built over any of the candidate directories
SpecPaths == InitLoad /\ [][NextPaths]_vars

\* the records a merge may find in the registry
ExistingRecords ==
  { Metadata("debug-helper", <<1, "debug-helper">>, "user", priority, "suggested",
             description, kk, ke, tags, use_cases, intent_patterns, auto_activate,
             threshold) :
      priority \in {"high", "medium", "low"},
      description \in {<<>>, <<"Finds bugs">>},
      kk \in {<<>>, <<"dibeogeu">>}, ke \in {<<>>, <<"debug", "error">>},
      tags \in {<<>>, <<"doc-tag">>}, use_cases \in {<<>>, <<"doc-case">>},
      intent_patterns \in {<<>>, <<"debug.*">>},
      auto_activate \in BOOLEAN, threshold \in {50, 70} }

\* the records _load_index_yaml may build for an entry of that name
IndexedRecords ==
  { Metadata("debug-helper", <<2>>, "project", priority, "suggested",
             <<"From the index">>, kk, ke, tags, use_cases, intent_patterns,
             auto_activate, threshold) :
      priority \in {"high", "medium", "low"},
      kk \in {<<>>, <<"kr">>}, ke \in {<<>>, <<"fix">>},
      tags \in {<<>>, <<"diagnostics">>}, use_cases \in {<<>>, <<"idx-case">>},
      intent_patterns \in {<<>>, <<"fix.*bug">>},
      auto_activate \in BOOLEAN, threshold \in {50, 80} }

\* a registry record and an artifact record of its name
InitMerge ==
  /\ ToolsIdle
  /\ IdleClient
  /\ RegistryInit
  /\ YamlImported
  /\ merge_result = NoRecord
  /\ merge_existing \in ExistingRecords
  /\ merge_indexed \in IndexedRecords
  /\ QueryIdle

\* the merge branch of _load_all_skills on that pair
ApplyMerge ==
  /\ merge_existing.present
  /\ ~merge_result.present
  /\ merge_result' = MergeIndexed(merge_existing, merge_indexed)
  /\ UNCHANGED <<merge_existing, merge_indexed>>
  /\ UNCHANGED <<aiVars, loadVars, queryVars, toolVars>>

NextMerge == ApplyMerge

SpecMerge == InitMerge /\ [][NextMerge]_vars

\* ------------------------------------------------------------ MatchScorer
\* For the scorer, text is spelled out: a text (a message, a keyword, a
\* description, a use case) is the sequence of its characters, each a
\* one-character string; a character outside ASCII is named by its code
\* point ("U+AC00"). A score is kept exact: raw scores in halves (6 is 3.0),
\* multipliers in tenths, thresholds in hundredths.
LowerCase ==
  <<"a", "b", "c", "d", "e", "f", "g", "h", "i", "j", "k", "l", "m",
    "n", "o", "p", "q", "r", "s", "t", "u", "v", "w", "x", "y", "z">>
UpperCase ==
  <<"A", "B", "C", "D", "E", "F", "G", "H", "I", "J", "K", "L", "M",
    "N", "O", "P", "Q", "R", "S", "T", "U", "V", "W", "X", "Y", "Z">>
Digits == {"0", "1", "2", "3", "4", "5", "6", "7", "8", "9"}
Whitespace == {" ", "\t", "\n"}
\* the Hangul characters that occur below, each named by its code point
HangulChars ==
  {"U+AC00", "U+AC19", "U+AC70", "U+AC8C", "U+ACE0", "U+ACFC", "U+AD6C",
   "U+ADF8", "U+AE4C", "U+AED8", "U+B108", "U+B204", "U+B294", "U+B2C8",
   "U+B2E4", "U+B370", "U+B3C4", "U+B418", "U+B4E4", "U+B514", "U+B5A4",
   "U+B5BB", "U+B824", "U+B85C", "U+B97C", "U+B9CC", "U+BB34", "U+BB50",
   "U+BB54", "U+BCF5", "U+BD80", "U+C0C8", "U+C11C", "U+C2F6", "U+C5B4",
   "U+C5B8", "U+C5C6", "U+C5C7", "U+C5D0", "U+C640", "U+C65C", "U+C694",
   "U+C6B4", "U+C73C", "U+C740", "U+C744", "U+C758", "U+C774", "U+C785",
   "U+C788", "U+C7A1", "U+C800", "U+C81C", "U+C880", "U+C918", "U+C9C0",
   "U+C9DC", "U+CC3E", "U+D130", "U+D544", "U+D558", "U+D55C", "U+D569",
   "U+D574"}
\* SkillActivator.STOPWORDS
STOPWORDS ==
  {<<"U+D574", "U+C918">>, <<"U+C880">>, <<"U+C774", "U+AC70">>,
   <<"U+C800", "U+AC70">>, <<"U+ADF8", "U+AC70">>, <<"U+BB50">>,
   <<"U+BB54", "U+AC00">>, <<"U+C5B4", "U+B5BB", "U+AC8C">>, <<"U+C65C">>,
   <<"U+C5B8", "U+C81C">>, <<"U+C5B4", "U+B514">>, <<"U+B204", "U+AD6C">>,
   <<"U+BB34", "U+C5C7">>, <<"U+C5B4", "U+B5A4">>, <<"U+C788", "U+C5B4">>,
   <<"U+C5C6", "U+C5B4">>, <<"U+D558", "U+B294">>, <<"U+B418", "U+B294">>,
   <<"U+AC19", "U+C740">>, <<"U+C788", "U+B294">>, <<"U+C5C6", "U+B294">>,
   <<"U+D574", "U+C11C">>, <<"U+D574", "U+C694">>,
   <<"U+D569", "U+B2C8", "U+B2E4">>, <<"U+C774", "U+B2E4">>,
   <<"U+C785", "U+B2C8", "U+B2E4">>, <<"U+C0C8", "U+B85C", "U+C6B4">>,
   <<"U+D558", "U+B824", "U+ACE0">>, <<"U+C788", "U+B294", "U+B370">>,
   <<"U+C2F6", "U+C5B4">>, <<"U+B9CC", "U+B4E4", "U+C5B4", "U+C918">>,
   <<"U+C9DC", "U+C918">>, <<"U+B108", "U+BB34">>,
   <<"U+BCF5", "U+C7A1", "U+D55C">>,
   <<"U+BCF5", "U+C7A1", "U+D574", "U+C11C">>, <<"U+CC3E", "U+ACE0">>,
   <<"U+D558", "U+ACE0">>, <<"U+C2F6", "U+C740">>, <<"U+D544", "U+C694">>,
   <<"t", "h", "e">>, <<"a">>, <<"a", "n">>, <<"i", "s">>,
   <<"a", "r", "e">>, <<"w", "a", "s">>, <<"w", "e", "r", "e">>,
   <<"b", "e">>, <<"b", "e", "e", "n">>, <<"b", "e", "i", "n", "g">>,
   <<"h", "a", "v", "e">>, <<"h", "a", "s">>, <<"h", "a", "d">>,
   <<"d", "o">>, <<"d", "o", "e", "s">>, <<"d", "i", "d">>,
   <<"w", "i", "l", "l">>, <<"w", "o", "u", "l", "d">>,
   <<"s", "h", "o", "u", "l", "d">>, <<"c", "o", "u", "l", "d">>,
   <<"c", "a", "n">>, <<"m", "a", "y">>, <<"m", "i", "g", "h", "t">>,
   <<"m", "u", "s", "t">>, <<"s", "h", "a", "l", "l">>,
   <<"t", "h", "i", "s">>, <<"t", "h", "a", "t">>,
   <<"t", "h", "e", "s", "e">>, <<"t", "h", "o", "s", "e">>, <<"i">>,
   <<"y", "o", "u">>, <<"h", "e">>, <<"s", "h", "e">>, <<"i", "t">>,
   <<"w", "e">>, <<"t", "h", "e", "y">>, <<"m", "e">>, <<"h", "i", "m">>,
   <<"h", "e", "r">>, <<"u", "s">>, <<"t", "h", "e", "m">>, <<"m", "y">>,
   <<"y", "o", "u", "r">>, <<"h", "i", "s">>, <<"i", "t", "s">>,
   <<"o", "u", "r">>, <<"t", "h", "e", "i", "r">>, <<"w", "h", "a", "t">>,
   <<"w", "h", "i", "c", "h">>, <<"w", "h", "o">>, <<"w", "h", "e", "n">>,
   <<"w", "h", "e", "r", "e">>, <<"w", "h", "y">>, <<"h", "o", "w">>,
   <<"p", "l", "e", "a", "s", "e">>, <<"j", "u", "s", "t">>,
   <<"s", "o", "m", "e">>, <<"n", "e", "e", "d">>, <<"w", "a", "n", "t">>,
   <<"h", "e", "l", "p">>, <<"w", "i", "t", "h">>, <<"f", "o", "r">>,
   <<"a", "b", "o", "u", "t">>, <<"l", "i", "k", "e">>,
   <<"m", "a", "k", "e">>, <<"c", "r", "e", "a", "t", "e">>,
   <<"n", "e", "w">>, <<"t", "o">>, <<"o", "f">>, <<"i", "n">>,
   <<"o", "n">>, <<"a", "t">>, <<"b", "y">>, <<"f", "r", "o", "m">>,
   <<"o", "r">>, <<"a", "n", "d">>, <<"a", "s">>, <<"s", "o">>,
   <<"i", "f">>, <<"t", "h", "e", "n">>, <<"t", "h", "a", "n">>,
   <<"b", "u", "t">>, <<"a", "l", "s", "o">>, <<"o", "n", "l", "y">>,
   <<"n", "o", "t">>, <<"n", "o">>, <<"y", "e", "s">>, <<"a", "l", "l">>,
   <<"a", "n", "y">>, <<"e", "a", "c", "h">>, <<"e", "v", "e", "r", "y">>,
   <<"b", "o", "t", "h">>, <<"f", "e", "w">>, <<"m", "o", "r", "e">>,
   <<"m", "o", "s", "t">>, <<"o", "t", "h", "e", "r">>,
   <<"s", "u", "c", "h">>}
\* SkillActivator.KOREAN_PARTICLES, in order
KOREAN_PARTICLES ==
  <<<<"U+AC00">>, <<"U+C774">>, <<"U+C740">>, <<"U+B294">>, <<"U+C744">>,
    <<"U+B97C">>, <<"U+C5D0">>, <<"U+C5D0", "U+C11C">>,
    <<"U+C5D0", "U+AC8C">>, <<"U+AED8", "U+C11C">>, <<"U+C73C", "U+B85C">>,
    <<"U+B85C">>, <<"U+C758">>, <<"U+B3C4">>, <<"U+B9CC">>,
    <<"U+BD80", "U+D130">>, <<"U+AE4C", "U+C9C0">>, <<"U+C640">>,
    <<"U+ACFC">>>>
\* the local stopwords of _calculate_match_score
stopwords ==
  {<<"t", "h", "e">>, <<"a", "n", "d">>, <<"f", "o", "r">>,
   <<"t", "h", "i", "s">>, <<"t", "h", "a", "t">>, <<"w", "i", "t", "h">>,
   <<"f", "r", "o", "m">>, <<"u", "s", "e">>, <<"w", "h", "e", "n">>,
   <<"s", "h", "o", "u", "l", "d">>, <<"w", "i", "l", "l">>,
   <<"c", "a", "n">>, <<"a", "r", "e">>, <<"w", "a", "s">>,
   <<"w", "e", "r", "e">>, <<"b", "e", "e", "n">>, <<"h", "a", "v", "e">>,
   <<"h", "a", "s">>, <<"h", "a", "d">>, <<"n", "o", "t">>,
   <<"b", "u", "t">>, <<"w", "h", "a", "t">>, <<"a", "l", "l">>,
   <<"y", "o", "u", "r">>, <<"y", "o", "u">>, <<"t", "h", "e", "y">>,
   <<"t", "h", "e", "m">>, <<"t", "h", "e", "i", "r">>,
   <<"w", "h", "i", "c", "h">>, <<"w", "h", "o">>, <<"w", "h", "o", "m">>,
   <<"h", "o", "w">>, <<"a", "n", "y">>, <<"s", "o", "m", "e">>,
   <<"s", "u", "c", "h">>, <<"m", "o", "r", "e">>, <<"m", "o", "s", "t">>,
   <<"o", "t", "h", "e", "r">>, <<"i", "n", "t", "o">>,
   <<"o", "v", "e", "r">>, <<"o", "n", "l", "y">>, <<"t", "h", "a", "n">>,
   <<"t", "h", "e", "n">>, <<"a", "l", "s", "o">>, <<"j", "u", "s", "t">>,
   <<"a", "b", "o", "u", "t">>, <<"u", "s", "i", "n", "g">>,
   <<"b", "e", "f", "o", "r", "e">>, <<"a", "f", "t", "e", "r">>,
   <<"d", "u", "r", "i", "n", "g">>, <<"l", "i", "k", "e">>,
   <<"n", "e", "e", "d">>, <<"n", "e", "e", "d", "s">>}
\* the elements of a sequence
Range(s) == {s[i] : i \in 1..Len(s)}

\* [a-zA-Z]
Letters == Range(LowerCase) \cup Range(UpperCase)
IsAlpha(c) == c \in Letters
\* \w, for the characters of the model
WordChars == Letters \cup Digits \cup {"_"} \cup HangulChars
IsWordChar(c) == c \in WordChars

\* str.lower()
ToLower == [c \in Range(UpperCase) |-> LowerCase[CHOOSE i \in 1..26 : UpperCase[i] = c]]
LowerChar(c) == IF c \in DOMAIN ToLower THEN ToLower[c] ELSE c
Lower(text) == [i \in 1..Len(text) |-> LowerChar(text[i])]

\* text[i..j] = part, Python's 'part in text', startswith and endswith
OccursAt(part, text, i) ==
  /\ i >= 1
  /\ i + Len(part) - 1 <= Len(text)
  /\ \A k \in 1..Len(part) : text[i + k - 1] = part[k]
Contains(part, text) == \E i \in 1..(Len(text) + 1) : OccursAt(part, text, i)
StartsWith(text, part) == OccursAt(part, text, 1)
EndsWith(text, part) ==
  Len(part) <= Len(text) /\ OccursAt(part, text, Len(text) - Len(part) + 1)

\* \b between text[i] and text[i+1] (i = 0: before the text, i = Len: after)
Boundary(text, i) ==
  LET left == i >= 1 /\ IsWordChar(text[i])
      right == i < Len(text) /\ IsWordChar(text[i + 1])
  IN left # right

\* str.split(): the maximal runs of characters that are no whitespace
RECURSIVE SplitFrom(_, _, _)
SplitFrom(text, i, word) ==
  IF i > Len(text) THEN (IF word = <<>> THEN <<>> ELSE <<word>>)
  ELSE IF text[i] \in Whitespace
       THEN (IF word = <<>> THEN <<>> ELSE <<word>>) \o SplitFrom(text, i + 1, <<>>)
       ELSE SplitFrom(text, i + 1, Append(word, text[i]))
Split(text) == SplitFrom(text, 1, <<>>)

\* re.sub(r'[^\w\s...]', ' ', text.lower())
Normalized(text) ==
  [i \in 1..Len(text) |->
     LET c == LowerChar(text[i])
     IN IF IsWordChar(c) \/ c \in Whitespace THEN c ELSE " "]

\* the particle loop of _extract_keywords: the first particle the word ends
\* with, if the word is more than one character longer, is cut off
RECURSIVE StripParticleFrom(_, _)
StripParticleFrom(w, k) ==
  IF k > Len(KOREAN_PARTICLES) THEN w
  ELSE IF EndsWith(w, KOREAN_PARTICLES[k]) /\ Len(w) > Len(KOREAN_PARTICLES[k]) + 1
       THEN SubSeq(w, 1, Len(w) - Len(KOREAN_PARTICLES[k]))
       ELSE StripParticleFrom(w, k + 1)
StripParticle(w) == StripParticleFrom(w, 1)

\* a word of the normalized text is kept as a keyword
KeptWord(w) ==
  /\ Len(w) >= 2
  /\ LET word_clean == StripParticle(w)
     IN word_clean # <<>> /\ word_clean \notin STOPWORDS

\* _extract_keywords(text)
ExtractKeywords(text) ==
  LET words == SelectSeq(Split(Normalized(text)), KeptWord)
  IN [i \in 1..Len(words) |-> StripParticle(words[i])]

\* re.findall(r'\b[a-zA-Z]{3,}\b', text): the runs of three letters or more
\* that have a word boundary on both sides; start is where the run of
\* letters the scan is in began (0: in none)
AlphaRun(text, start, end) ==
  IF start > 0 /\ end - start >= 2 /\ Boundary(text, start - 1) /\ Boundary(text, end)
  THEN {SubSeq(text, start, end)} ELSE {}
RECURSIVE AlphaWordsFrom(_, _, _)
AlphaWordsFrom(text, i, start) ==
  IF i > Len(text) THEN AlphaRun(text, start, Len(text))
  ELSE IF IsAlpha(text[i])
       THEN AlphaWordsFrom(text, i + 1, IF start = 0 THEN i ELSE start)
       ELSE AlphaRun(text, start, i - 1) \cup AlphaWordsFrom(text, i + 1, 0)
AlphaWords(text) == AlphaWordsFrom(text, 1, 0)

\* DEFAULT_CONFIG['keyword_weights'], in halves
exact_match == 6
compound_match == 5
partial_match == 3
tag_match == 4
use_case_match == 5

\* DEFAULT_CONFIG['priority_multipliers'].get(priority, 1.0), in tenths
PriorityMultiplier(priority) ==
  CASE priority = "high" -> 15
    [] priority = "medium" -> 10
    [] priority = "low" -> 7
    [] OTHER -> 10

\* the sum of a sequence of numbers
RECURSIVE SumSeq(_)
SumSeq(s) == IF s = <<>> THEN 0 ELSE Head(s) + SumSeq(Tail(s))

\* list(a set): its elements in some order
RECURSIVE SetToSeq(_)
SetToSeq(S) ==
  IF S = {} THEN <<>>
  ELSE LET x == CHOOSE y \in S : TRUE IN <<x>> \o SetToSeq(S \ {x})

\* An intent pattern is kept as what it does: valid is whether re compiles
\* it, parts the literals of a pattern literal1.*literal2.*..., found under
\* re.IGNORECASE by re.search ('.' matches no newline). A pattern that is
\* not valid makes re.search raise re.error, or, when raises is set, an
\* exception that is no re.error (OverflowError for 'a{99999999999999999999}',
\* RecursionError for a deep nesting, TypeError for a number).
Pattern(valid, parts) == [valid |-> valid, parts |-> parts, raises |-> FALSE]
RaisingPattern == [valid |-> FALSE, parts |-> <<>>, raises |-> TRUE]

RECURSIVE SearchFrom(_, _, _)
SearchFrom(parts, text, from) ==
  IF parts = <<>> THEN TRUE
  ELSE \E i \in from..(Len(text) + 1) :
         /\ OccursAt(Head(parts), text, i)
         /\ \A k \in from..(i - 1) : text[k] # "\n"
         /\ SearchFrom(Tail(parts), text, i + Len(Head(parts)))

Search(parts, text) ==
  parts # <<>> /\ \E i \in 1..(Len(text) + 1) :
                    /\ OccursAt(Head(parts), text, i)
                    /\ SearchFrom(Tail(parts), text, i + Len(Head(parts)))

\* re.search(pattern, text, re.IGNORECASE) finds a match
PatternMatches(pattern, text) ==
  /\ pattern.valid
  /\ Search([j \in 1..Len(pattern.parts) |-> Lower(pattern.parts[j])], Lower(text))

\* the first pattern, in list order, on which the loop of
\* _check_intent_patterns ends: one that matches (return True) or one whose
\* exception the except clause does not catch; 0 when the loop runs out
FirstDeciding(patterns, text) ==
  LET deciding == {k \in 1..Len(patterns) :
                     patterns[k].raises \/ PatternMatches(patterns[k], text)}
  IN IF deciding = {} THEN 0
     ELSE CHOOSE k \in deciding : \A j \in deciding : k <= j

\* an exception leaves _check_intent_patterns
IntentPatternsRaise(patterns, text) ==
  LET k == FirstDeciding(patterns, text)
  IN k # 0 /\ patterns[k].raises

\* _check_intent_patterns(patterns, text), when it returns
CheckIntentPatterns(patterns, text) ==
  LET k == FirstDeciding(patterns, text)
  IN k # 0 /\ ~patterns[k].raises

\* _check_word_boundary(keyword, text): \bkeyword\b found in the text
CheckWordBoundary(keyword, text) ==
  LET kw == Lower(keyword)
      t == Lower(text)
  IN \E i \in 1..(Len(t) + 1) :
       /\ OccursAt(kw, t, i)
       /\ Boundary(t, i - 1)
       /\ Boundary(t, i + Len(kw) - 1)

\* the keywords of the use cases and of the description
UseCaseKeywords(skill) ==
  UNION {AlphaWords(Lower(skill.use_cases[i])) : i \in 1..Len(skill.use_cases)} \ stopwords
DescKeywords(skill) ==
  IF skill.description # <<>> THEN AlphaWords(Lower(skill.description)) \ stopwords ELSE {}

\* skill.keywords_korean + skill.keywords_english, lowercased
ExplicitKeywords(skill) ==
  LET all == skill.keywords_korean \o skill.keywords_english
  IN [i \in 1..Len(all) |-> Lower(all[i])]

\* skill_keywords of the matching passes: the description's keywords stand
\* in when the skill has none of its own
SkillKeywords(skill) ==
  IF ExplicitKeywords(skill) = <<>> /\ DescKeywords(skill) # {}
  THEN SetToSeq(DescKeywords(skill))
  ELSE ExplicitKeywords(skill)

\* an exception leaves _calculate_match_score: the one of the intent patterns
ScoreRaises(user_keywords, skill, original_message) ==
  /\ user_keywords # <<>>
  /\ skill.intent_patterns # <<>>
  /\ original_message # <<>>
  /\ IntentPatternsRaise(skill.intent_patterns, original_message)

\* the intent bonus
IntentScore(skill, original_message) ==
  IF /\ skill.intent_patterns # <<>>
     /\ original_message # <<>>
     /\ CheckIntentPatterns(skill.intent_patterns, original_message)
  THEN exact_match * 2 ELSE 0

\* the bonus of the primary keywords: the first three explicit keywords
PrimaryScore_FirstOnly(skill, original_message) ==
  LET kws == ExplicitKeywords(skill)
  IN IF original_message # <<>> /\ kws # <<>>
        /\ CheckWordBoundary(kws[1], Lower(original_message))
     THEN exact_match * 2 ELSE 0
PrimaryScore(skill, original_message) ==
  LET kws == ExplicitKeywords(skill)
      primary_keywords == SubSeq(kws, 1, IF Len(kws) < 3 THEN Len(kws) ELSE 3)
      message_lower == Lower(original_message)
  IN IF original_message # <<>> /\ kws # <<>>
     THEN SumSeq([i \in 1..Len(primary_keywords) |->
                    IF CheckWordBoundary(primary_keywords[i], message_lower)
                    THEN exact_match * 2 ELSE 0])
     ELSE 0

\* matching_parts of the compound pass for one skill keyword: the positions
\* of the user keywords that are part of it
MatchingParts(user_keywords, skill_kw) ==
  {i \in 1..Len(user_keywords) :
     Contains(user_keywords[i], skill_kw) /\ Len(user_keywords[i]) >= 2}

\* a compound pass that adds the weight once for a skill keyword
CompoundScore_Flat(user_keywords, skill_keywords) ==
  SumSeq([k \in 1..Len(skill_keywords) |->
            LET n == Cardinality(MatchingParts(user_keywords, skill_keywords[k]))
            IN IF n >= 2 THEN compound_match ELSE 0])

\* the compound pass over skill_keywords
CompoundScore(user_keywords, skill_keywords) ==
  SumSeq([k \in 1..Len(skill_keywords) |->
            LET n == Cardinality(MatchingParts(user_keywords, skill_keywords[k]))
            IN IF n >= 2 THEN n * compound_match ELSE 0])

\* matched_user_keywords after the compound pass
CompoundMatched(user_keywords, skill_keywords) ==
  {user_keywords[i] :
     i \in UNION {LET parts == MatchingParts(user_keywords, skill_keywords[k])
                  IN IF Cardinality(parts) >= 2 THEN parts ELSE {} :
                    k \in 1..Len(skill_keywords)}}

\* rule 4 of the individual pass: a partial match in the explicit keywords
PartialMatch(user_kw, sk) ==
  LET lu == Len(user_kw)
      ls == Len(sk)
      shorter == IF lu < ls THEN lu ELSE ls
      diff == IF lu < ls THEN ls - lu ELSE lu - ls
  IN \/ /\ Contains(user_kw, sk) \/ Contains(sk, user_kw)
        /\ shorter >= 4
        /\ diff <= 3
     \/ /\ lu >= 5 /\ ls >= 5
        /\ StartsWith(sk, SubSeq(user_kw, 1, 5)) \/ StartsWith(user_kw, SubSeq(sk, 1, 5))

\* an individual pass in which every rule that applies adds its weight
KeywordScore_Sum(user_kw, skill_keywords, use_case_keywords, desc_keywords, skill_tags) ==
  (IF user_kw \in Range(skill_keywords) THEN exact_match ELSE 0)
  + (IF user_kw \in use_case_keywords THEN use_case_match ELSE 0)
  + (IF user_kw \in desc_keywords THEN partial_match ELSE 0)
  + (IF \E k \in 1..Len(skill_keywords) : PartialMatch(user_kw, skill_keywords[k])
     THEN partial_match ELSE 0)
  + (IF user_kw \in skill_tags THEN tag_match ELSE 0)

\* what one user keyword adds in the individual pass: the first rule that
\* applies
KeywordScore(user_kw, skill_keywords, use_case_keywords, desc_keywords, skill_tags) ==
  IF user_kw \in Range(skill_keywords) THEN exact_match
  ELSE IF user_kw \in use_case_keywords THEN use_case_match
  ELSE IF user_kw \in desc_keywords THEN partial_match
  ELSE IF \E k \in 1..Len(skill_keywords) : PartialMatch(user_kw, skill_keywords[k])
       THEN partial_match
  ELSE IF user_kw \in skill_tags THEN tag_match
  ELSE 0

\* the individual pass: every user keyword the compound pass did not take
\* scores once
IndividualScore(user_keywords, skill_keywords, use_case_keywords, desc_keywords, skill_tags) ==
  LET rest == SetToSeq(Range(user_keywords) \ CompoundMatched(user_keywords, skill_keywords))
  IN SumSeq([i \in 1..Len(rest) |->
               KeywordScore(rest[i], skill_keywords, use_case_keywords, desc_keywords,
                            skill_tags)])

\* the use-case bonus: 0.5 for every user keyword in a use case that holds
\* two of them or more
UseCaseBonus(user_keywords, skill_use_cases) ==
  SumSeq([i \in 1..Len(skill_use_cases) |->
            LET overlap == Range(user_keywords) \cap AlphaWords(skill_use_cases[i])
            IN IF Cardinality(overlap) >= 2 THEN Cardinality(overlap) ELSE 0])

\* the stemming bonus: 1.0 for every user keyword and use-case keyword, both
\* of four characters or more, one a prefix of the other
StemBonus(user_keywords, use_case_keywords) ==
  LET uc == SetToSeq(use_case_keywords)
  IN SumSeq([i \in 1..Len(user_keywords) |->
               SumSeq([j \in 1..Len(uc) |->
                         IF /\ Len(user_keywords[i]) >= 4 /\ Len(uc[j]) >= 4
                            /\ StartsWith(uc[j], user_keywords[i])
                                 \/ StartsWith(user_keywords[i], uc[j])
                         THEN 2 ELSE 0])])

\* score of _calculate_match_score before it is normalized, in halves; 0
\* when there is no user keyword
RawScore(user_keywords, skill, original_message) ==
  IF user_keywords = <<>> THEN 0
  ELSE LET skill_keywords == SkillKeywords(skill)
           use_case_keywords == UseCaseKeywords(skill)
           desc_keywords == DescKeywords(skill)
           skill_tags == {Lower(skill.tags[i]) : i \in 1..Len(skill.tags)}
           skill_use_cases == [i \in 1..Len(skill.use_cases) |-> Lower(skill.use_cases[i])]
       IN IntentScore(skill, original_message)
          + PrimaryScore(skill, original_message)
          + CompoundScore(user_keywords, skill_keywords)
          + IndividualScore(user_keywords, skill_keywords, use_case_keywords,
                            desc_keywords, skill_tags)
          + UseCaseBonus(user_keywords, skill_use_cases)
          + StemBonus(user_keywords, use_case_keywords)

\* _calculate_match_score: score / max_possible_score * multiplier, as the
\* fraction num / den
Score(num, den) == [num |-> num, den |-> den]
CalculateMatchScore(user_keywords, skill, original_message) ==
  IF user_keywords = <<>> THEN Score(0, 1)
  ELSE Score(RawScore(user_keywords, skill, original_message)
               * PriorityMultiplier(skill.priority),
             Len(user_keywords) * exact_match * 10)

\* score a >= score b; a score >= a threshold given in hundredths
ScoreAtLeast(a, b) == a.num * b.den >= b.num * a.den
ReachesThreshold(score, threshold) == score.num * 100 >= threshold * score.den

\* -------------------------------------------------------- detect_skills
\* largest configured max_suggestions
MaxSuggestions == 2

\* the messages given to detect_skills: "", "the a is", "x ! ?",
\* "fix bug in payment flow", "Debug", "debug error, now!"
MessageEmpty ==
  <<>>
MessageStopwords ==
  <<"t", "h", "e", " ", "a", " ", "i", "s">>
MessageShortTokens ==
  <<"x", " ", "!", " ", "?">>
MessageScenarioB ==
  <<"f", "i", "x", " ", "b", "u", "g", " ", "i", "n", " ", "p", "a", "y", "m", "e", "n", "t", " ", "f", "l", "o", "w">>
MessageDebug ==
  <<"D", "e", "b", "u", "g">>
MessageDebugError ==
  <<"d", "e", "b", "u", "g", " ", "e", "r", "r", "o", "r", ",", " ", "n", "o", "w", "!">>
Messages ==
  {MessageEmpty, MessageStopwords, MessageShortTokens,
   MessageScenarioB, MessageDebug, MessageDebugError}

\* the records of a registry under a name: what a skill directory and an
\* artifact may have given it
RegistryNames == {"s1", "s2", "s3"}
RegistryRecords(n) ==
  { Metadata(n, <<1, n>>, "user", "medium", "suggested", <<>>, <<>>,
             <<<<"d", "e", "b", "u", "g">>, <<"e", "r", "r", "o", "r">>, <<"b", "u", "g">>>>, <<>>, <<>>, <<>>, TRUE, 50),
    Metadata(n, <<1, n>>, "user", "high", "suggested", <<>>, <<>>,
             <<<<"d", "e", "b", "u", "g">>>>, <<>>, <<>>, <<>>, TRUE, 0),
    Metadata(n, <<1, n>>, "user", "low", "suggested", <<>>, <<>>,
             <<<<"p", "a", "y", "m", "e", "n", "t">>, <<"f", "l", "o", "w">>>>, <<>>, <<>>, <<>>, TRUE, 70),
    Metadata(n, <<1, n>>, "user", "medium", "suggested", <<>>, <<>>,
             <<<<"b", "u", "g">>>>, <<>>, <<>>, <<>>, FALSE, 50),
    Metadata(n, <<1, n>>, "user", "medium", "suggested",
             <<"f", "i", "x", " ", "t", "h", "e", " ", "p", "a", "y", "m", "e", "n", "t", " ", "f", "l", "o", "w">>, <<>>, <<>>,
             <<<<"b", "u", "g">>>>,
             <<<<"d", "e", "b", "u", "g", "g", "i", "n", "g", " ", "p", "a", "y", "m", "e", "n", "t", " ", "e", "r", "r", "o", "r", "s">>>>,
             <<Pattern(TRUE, <<<<"f", "i", "x">>, <<"b", "u", "g">>>>)>>, TRUE, 90) }
Registries ==
  {r \in [RegistryNames -> UNION {RegistryRecords(n) : n \in RegistryNames}] :
     \A n \in RegistryNames : r[n].name = n}

\* orders the dict of these names may have (the order the directory scan
\* and the artifact gave the names in)
InsertionOrders == {<<"s1", "s2", "s3">>, <<"s3", "s1", "s2">>}

\* "if not user_keywords": the early return of detect_skills
NoKeywords_Never(keywords) == FALSE
NoKeywords(keywords) == keywords = <<>>

\* the threshold detect_skills applies to a skill: the override when it is
\* not None, else skill.confidence_threshold or global_threshold
AppliedThreshold(skill, override, global_threshold) ==
  IF override # <<>> THEN override[1]
  ELSE IF skill.confidence_threshold # 0 THEN skill.confidence_threshold
  ELSE global_threshold

\* the loop of detect_skills: for every skill that auto-activates, in the
\* order of the dict, its score and the threshold applied to it
Considered(keywords, message, registry, order, override, cfg) ==
  LET auto == SelectSeq(order, LAMBDA n : registry[n].auto_activate)
  IN [i \in 1..Len(auto) |->
        [name |-> auto[i],
         score |-> CalculateMatchScore(keywords, registry[auto[i]], message),
         threshold |-> AppliedThreshold(registry[auto[i]], override,
                                        cfg.confidence_threshold)]]

\* "if score >= threshold": the skill is appended to the local list matches
Qualifies(c) == ReachesThreshold(c.score, c.threshold)

\* matches.sort(key=score, reverse=True): a stable sort, highest score first
RECURSIVE InsertByScore_Ascending(_, _)
InsertByScore_Ascending(sorted, m) ==
  IF sorted = <<>> THEN <<m>>
  ELSE IF ScoreAtLeast(m.score, Head(sorted).score)
       THEN <<Head(sorted)>> \o InsertByScore_Ascending(Tail(sorted), m)
       ELSE <<m>> \o sorted
RECURSIVE InsertByScore(_, _)
InsertByScore(sorted, m) ==
  IF sorted = <<>> THEN <<m>>
  ELSE IF ScoreAtLeast(Head(sorted).score, m.score)
       THEN <<Head(sorted)>> \o InsertByScore(Tail(sorted), m)
       ELSE <<m>> \o sorted
RECURSIVE SortByScore(_)
SortByScore(ms) ==
  IF ms = <<>> THEN <<>>
  ELSE InsertByScore(SortByScore(SubSeq(ms, 1, Len(ms) - 1)), ms[Len(ms)])

\* matches[:max_suggestions] for max_suggestions >= 0
Truncated(ms, max_suggestions) ==
  SubSeq(ms, 1, IF Len(ms) < max_suggestions THEN Len(ms) ELSE max_suggestions)

\* what detect_skills returns, given the keywords and the loop's outcome
\* (no loop, and the empty list, after the early return)
DetectedMatches(keywords, loop, cfg) ==
  IF NoKeywords(keywords) THEN <<>>
  ELSE LET found == SelectSeq(loop, Qualifies)
       IN Truncated(SortByScore([i \in 1..Len(found) |->
                                  [name |-> found[i].name, score |-> found[i].score]]),
                    cfg.max_suggestions)

\* detect_skills(user_message)
DetectSkills ==
  /\ ~detected
  /\ insertion_order # <<>>
  /\ LET keywords == ExtractKeywords(user_message)
         loop == IF NoKeywords(keywords) THEN <<>>
                 ELSE Considered(keywords, user_message, skills, insertion_order,
                                 override_threshold, activator_config)
     IN /\ considered' = loop
        /\ matches' = DetectedMatches(keywords, loop, activator_config)
  /\ detected' = TRUE
  /\ UNCHANGED <<user_message, override_threshold, activator_config, insertion_order>>
  /\ UNCHANGED <<skill_paths, skills, pos, phase, fs, HAS_YAML>>
  /\ UNCHANGED <<aiVars, mergeVars, scoreVars, toolVars>>

\* no scoring call under study
ScoreIdle ==
  /\ score_keywords = <<>>
  /\ extra_keyword = <<>>
  /\ scored_skill = NoRecord
  /\ score_message = <<>>
  /\ score_before = 0
  /\ score_after = 0
  /\ scored = FALSE
  /\ score_raised = FALSE

\* a registry that was built, and a message for it
InitDetect ==
  /\ ToolsIdle
  /\ IdleClient
  /\ MergeIdle
  /\ ScoreIdle
  /\ YamlImported
  /\ skill_paths = <<"user">>
  /\ pos = 0
  /\ phase = "done"
  /\ fs = <<>>
  /\ skills \in Registries
  /\ insertion_order \in InsertionOrders
  /\ user_message \in Messages
  /\ override_threshold \in {<<>>, <<0>>, <<60>>}
  /\ activator_config \in [confidence_threshold : {50}, max_suggestions : 0..MaxSuggestions]
  /\ matches = <<>>
  /\ considered = <<>>
  /\ detected = FALSE

NextDetect == DetectSkills

SpecDetect == InitDetect /\ [][NextDetect]_vars

\* ----------------------------------------- _calculate_match_score alone
\* longest keyword list scored
MaxKeywords == 2

\* the words of the keyword lists: "ab", "cd", "abcd", "abcde"
Vocabulary ==
  {<<"a", "b">>, <<"c", "d">>, <<"a", "b", "c", "d">>,
   <<"a", "b", "c", "d", "e">>}

\* the skills scored: with keywords ["abcd","ab","cd"], ["ab"],
\* ["abcde","cd"] or none, the description "abcd cd" or none, the tags
\* ["cd","abcde"] or none, and the use case "abcd cd ab" or none
ScoredSkills ==
  { Metadata("s", <<1, "s">>, "user", "medium", "suggested", description, <<>>, ke,
             tags, use_cases, <<>>, TRUE, 50) :
      ke \in {<<<<"a", "b", "c", "d">>, <<"a", "b">>, <<"c", "d">>>>,
              <<<<"a", "b">>>>,
              <<<<"a", "b", "c", "d", "e">>, <<"c", "d">>>>,
              <<>>},
      description \in {<<>>, <<"a", "b", "c", "d", " ", "c", "d">>},
      tags \in {<<>>, <<<<"c", "d">>, <<"a", "b", "c", "d", "e">>>>},
      use_cases \in {<<>>, <<<<"a", "b", "c", "d", " ", "c", "d", " ", "a", "b">>>>} }

\* "": no message; "ab cd"
ScoredMessages == {<<>>, <<"a", "b", " ", "c", "d">>}

\* two calls of _calculate_match_score for the same skill and message: on
\* a keyword list and on that list with one more keyword
AppendKeyword ==
  /\ ~scored
  /\ scored_skill.present
  /\ score_before' = RawScore(score_keywords, scored_skill, score_message)
  /\ score_after' = RawScore(Append(score_keywords, extra_keyword), scored_skill,
                              score_message)
  /\ scored' = TRUE
  /\ UNCHANGED <<score_keywords, extra_keyword, scored_skill, score_message, score_raised>>
  /\ UNCHANGED <<aiVars, loadVars, mergeVars, detectVars, toolVars>>

\* no detect_skills call under study
DetectIdle ==
  /\ user_message = <<>>
  /\ override_threshold = <<>>
  /\ activator_config = [confidence_threshold |-> 50, max_suggestions |-> 3]
  /\ insertion_order = <<>>
  /\ matches = <<>>
  /\ considered = <<>>
  /\ detected = FALSE

InitScore ==
  /\ ToolsIdle
  /\ IdleClient
  /\ RegistryInit
  /\ YamlImported
  /\ MergeIdle
  /\ DetectIdle
  /\ score_keywords \in SeqsUpTo(Vocabulary, MaxKeywords)
  /\ extra_keyword \in Vocabulary
  /\ scored_skill \in ScoredSkills
  /\ score_message \in ScoredMessages
  /\ score_before = 0
  /\ score_after = 0
  /\ scored = FALSE
  /\ score_raised = FALSE

NextScore == AppendKeyword

SpecScore == InitScore /\ [][NextScore]_vars

\* ------------------------------------------ IndexGenerator.generate_index
\* most requests the client makes for one skill (retries and fallbacks)
MaxRequests == 2

\* skill names: "ab", "my-sk"; "gh" is the name of no skill directory
NameAb == <<"a", "b">>
NameMySk == <<"m", "y", "-", "s", "k">>
NameGh == <<"g", "h">>
DiskNames == {NameAb, NameMySk}
GenNames == {NameAb, NameMySk, NameGh}

\* the language tags of keyword mappings
LanguageTags == {"english", "korean", "spanish"}

\* a value that may be missing: <<>> when it is, <<v>> when it is v
Get(opt, default) == IF opt = <<>> THEN default ELSE opt[1]

\* a 'keywords' value: a mapping (per tag <<>> when the tag is no key, else
\* the list under it in <<..>>), a list, or none
KeywordMap(of) == [kind |-> "map", of |-> of]
NoTags == [l \in LanguageTags |-> <<>>]
KeywordList == [kind |-> "list", of |-> NoTags]
KeywordsAbsent == [kind |-> "absent", of |-> NoTags]

\* {lang: [] for lang in self.config.languages}
EmptyKeywords(langs) ==
  KeywordMap([l \in LanguageTags |->
                IF \E i \in 1..Len(langs) : langs[i] = l THEN << <<>> >> ELSE <<>>])

\* the fields of a JSON object the AI answered with, each one optional
Fields(priority, description, keywords, tags, use_cases, intent_patterns, confidence_threshold) ==
  [priority |-> priority, description |-> description, keywords |-> keywords,
   tags |-> tags, use_cases |-> use_cases, intent_patterns |-> intent_patterns,
   confidence_threshold |-> confidence_threshold]
NoFields == Fields(<<>>, <<>>, KeywordsAbsent, <<>>, <<>>, <<>>, <<>>)

\* the terms an answer lists under a language tag: "debug", "depurar"
TermsOf(l) ==
  IF l = "english" THEN <<<<"d", "e", "b", "u", "g">>>>
  ELSE IF l = "spanish" THEN <<<<"d", "e", "p", "u", "r", "a", "r">>>>
  ELSE <<>>

\* the keyword mapping of an answer that follows the system prompt: one
\* list per configured language
AnsweredKeywords(langs) ==
  KeywordMap([l \in LanguageTags |->
                IF \E i \in 1..Len(langs) : langs[i] = l THEN <<TermsOf(l)>> ELSE <<>>])

\* what client.generate gives for one skill: it raises, or it returns a
\* text: no JSON, a JSON list, a JSON string, a JSON value that is falsy and
\* no object (null, 0, [], ""), or a JSON object; fenced: the text is in a
\* ``` block
Response(kind, fenced, fields) == [kind |-> kind, fenced |-> fenced, fields |-> fields]
Responses(langs) ==
  { Response("exception", FALSE, NoFields),
    Response("not_json", FALSE, NoFields),
    Response("json_list", FALSE, NoFields),
    Response("json_string", FALSE, NoFields),
    Response("json_falsy", FALSE, NoFields),
    Response("object", FALSE, NoFields),
    Response("object", FALSE,
             Fields(<<"high">>, <<<<"f", "i", "n", "d", "s", " ", "b", "u", "g", "s">>>>, AnsweredKeywords(langs), <<<<<<"d", "e", "v">>>>>>,
                    <<<<<<"f", "i", "x", "i", "n", "g", " ", "c", "o", "d", "e">>>>>>, <<<<<<"f", "i", "x">>>>>>, <<90>>)),
    Response("object", TRUE,
             Fields(<<>>, <<<<"f", "i", "n", "d", "s", " ", "b", "u", "g", "s">>>>, KeywordsAbsent, <<>>, <<>>, <<>>, <<>>)),
    Response("object", FALSE,
             Fields(<<>>, <<>>, KeywordList, <<>>, <<>>, <<>>, <<>>)) }

\* response.strip() and the two re.sub of extract_skill_metadata: a text
\* that starts with ``` loses the fence
StripFence(r) == [r EXCEPT !.fenced = FALSE]

\* json.loads: raises on a text that is in a fence or is no JSON
JsonDecodeError(r) == r.fenced \/ r.kind = "not_json"

\* extract_skill_metadata: None when the client or the parser raised, else
\* the parsed value whatever its type
NoMetadata == [kind |-> "none", fields |-> NoFields]
ExtractSkillMetadata(r) ==
  IF r.kind = "exception" THEN NoMetadata
  ELSE IF JsonDecodeError(StripFence(r)) THEN NoMetadata
  ELSE [kind |-> StripFence(r).kind, fields |-> r.fields]

\* an extract_skill_metadata that calls the client again after a text
\* that is no JSON
CallsAgain_OnParseError(r) == r.kind # "exception" /\ JsonDecodeError(StripFence(r))

\* does extract_skill_metadata call client.generate again after this
\* answer: no, both except branches return None
CallsAgain(r) == FALSE

\* "if metadata": None, a falsy value and an object with no key are false
Truthy(metadata) ==
  \/ metadata.kind \in {"json_list", "json_string"}
  \/ metadata.kind = "object" /\ metadata.fields # NoFields

\* metadata.get on a list or a string, keywords.values() on a list:
\* AttributeError, in no try block
MetadataRaises(metadata) ==
  /\ Truthy(metadata)
  /\ \/ metadata.kind # "object"
     \/ metadata.fields.keywords.kind = "list"

\* an entry of index["skills"]; intent_patterns is <<>> when the entry has
\* no such key
IndexEntry(priority, description, keywords, tags, use_cases, intent_patterns, confidence_threshold) ==
  [present |-> TRUE, priority |-> priority, description |-> description,
   keywords |-> keywords, tags |-> tags, use_cases |-> use_cases,
   intent_patterns |-> intent_patterns, auto_activate |-> TRUE,
   confidence_threshold |-> confidence_threshold]
NoIndexEntry ==
  [present |-> FALSE, priority |-> "", description |-> <<>>,
   keywords |-> KeywordsAbsent, tags |-> <<>>, use_cases |-> <<>>,
   intent_patterns |-> <<>>, auto_activate |-> FALSE, confidence_threshold |-> 0]

\* the entry stored for metadata that is true
ExtractedEntry(fields, langs) ==
  IndexEntry(Get(fields.priority, "medium"), Get(fields.description, <<>>),
             IF fields.keywords.kind = "absent" THEN EmptyKeywords(langs)
             ELSE fields.keywords,
             Get(fields.tags, <<>>), Get(fields.use_cases, <<>>),
             <<Get(fields.intent_patterns, <<>>)>>,
             Get(fields.confidence_threshold, 70))

\* skill_name.replace('-', ' ')
ReplaceHyphens(name) == [i \in 1..Len(name) |-> IF name[i] = "-" THEN " " ELSE name[i]]

\* an entry that has the name under every configured language
FallbackEntry_EveryLanguage(name, langs) ==
  IndexEntry("medium", <<"S", "k", "i", "l", "l", ":", " ">> \o name,
             KeywordMap([l \in LanguageTags |->
                           IF \E i \in 1..Len(langs) : langs[i] = l
                           THEN << <<ReplaceHyphens(name)>> >> ELSE <<>>]),
             <<>>, <<>>, <<>>, 70)

\* the fallback entry: "Skill: <name>", the name with its hyphens replaced
\* as the one keyword of the first language
FallbackEntry(name, langs) ==
  IndexEntry("medium", <<"S", "k", "i", "l", "l", ":", " ">> \o name,
             KeywordMap([l \in LanguageTags |->
                           IF langs # <<>> /\ langs[1] = l
                           THEN << <<ReplaceHyphens(name)>> >>
                           ELSE EmptyKeywords(langs).of[l]]),
             <<>>, <<>>, <<>>, 70)

\* the index files of skills_path
Paths == {"INDEX.yaml", "INDEX.json"}

\* output_path.with_suffix('.json')
WithSuffixJson(path) == IF path = "INDEX.yaml" THEN "INDEX.json" ELSE path

\* a file: absent, unparsable, or an index written by yaml.dump or json.dump
NoSkills == [n \in GenNames |-> NoIndexEntry]
FileAbsent == [state |-> "absent", format |-> "none", skills |-> NoSkills]
FileCorrupt == [state |-> "corrupt", format |-> "none", skills |-> NoSkills]
IndexFile(format, entries) == [state |-> "index", format |-> format, skills |-> entries]

\* the entries of an index made by an earlier run, "gh" included
OldSkills ==
  [n \in GenNames |->
     IndexEntry("low", <<"o", "l", "d", " ">> \o n, AnsweredKeywords(<<"english">>), <<>>, <<>>,
                <<<<>>>>, 60)]

\* the load of the existing index: yaml.safe_load reads what yaml.dump and
\* json.dump wrote, json.load only what json.dump wrote; any exception is
\* passed over
NotLoaded == [ok |-> FALSE, skills |-> NoSkills]
LoadExisting(file, has_yaml) ==
  IF file.state = "index" /\ (has_yaml \/ file.format = "json")
  THEN [ok |-> TRUE, skills |-> file.skills]
  ELSE NotLoaded

\* the output the script prints and the requests of the client, in order
Marker(kind, status, name, done, total) ==
  [kind |-> kind, status |-> status, name |-> name, done |-> done, total |-> total]

\* the orders a set may be gone through in
Orders(S) ==
  {p \in [1..Cardinality(S) -> S] : \A i, j \in 1..Cardinality(S) : p[i] = p[j] => i = j}

\* the number of entries of a skills mapping
CountSkills(entries) == Cardinality({n \in GenNames : entries[n].present})

\* generate_index up to the loop: the scan, the filter and its warnings,
\* the early return, the load of the existing index
GenerateIndexStart ==
  /\ gen_pc = "idle"
  /\ LET skills_found == IF skills_filter # {}
                         THEN SelectSeq(all_skills, LAMBDA n : n \in skills_filter)
                         ELSE all_skills
         missing == skills_filter \ Range(skills_found)
         warns == verbose /\ skills_filter # {}
                    /\ Len(skills_found) < Cardinality(skills_filter)
         existing == IF skills_filter # {}
                     THEN LoadExisting(files[output_path], HAS_YAML)
                     ELSE NotLoaded
     IN /\ \E order \in Orders(missing) :
             gen_out' = IF warns
                        THEN [i \in 1..Len(order) |->
                                Marker("STATUS", "WARNING", order[i], 0, 0)]
                        ELSE <<>>
        /\ gen_skills' = skills_found
        /\ gen_pc' = IF skills_found = <<>> THEN "returned" ELSE "loop"
        /\ index' = IF skills_found = <<>> THEN NoSkills ELSE existing.skills
  /\ gen_i' = 1
  /\ files_before' = files
  /\ UNCHANGED <<languages, verbose, all_skills, unreadable, skills_filter, output_path,
                 files, gen_requests, gen_responses>>
  /\ UNCHANGED <<aiVars, loadVars, mergeVars, queryVars, hookVars, showVars, extractVars, buildVars>>

\* the head of the loop: the PROGRESS marker and read_text
GenProgress ==
  /\ gen_pc = "loop"
  /\ gen_i <= Len(gen_skills)
  /\ LET skill_name == gen_skills[gen_i]
         progress == IF verbose
                     THEN <<Marker("PROGRESS", "", skill_name, gen_i, Len(gen_skills))>>
                     ELSE <<>>
     IN IF skill_name \in unreadable
        THEN /\ gen_out' = gen_out \o progress
                             \o (IF verbose
                                 THEN <<Marker("STATUS", "ERROR", skill_name, 0, 0)>>
                                 ELSE <<>>)
             /\ gen_i' = gen_i + 1
             /\ gen_pc' = "loop"
        ELSE /\ gen_out' = gen_out \o progress
             /\ gen_i' = gen_i
             /\ gen_pc' = "extract"
  /\ gen_requests' = 0
  /\ UNCHANGED <<languages, verbose, all_skills, unreadable, skills_filter, output_path,
                 files, files_before, index, gen_skills, gen_responses>>
  /\ UNCHANGED <<aiVars, loadVars, mergeVars, queryVars, hookVars, showVars, extractVars, buildVars>>

\* a request of client.generate for the skill the loop is at
GenRequest ==
  /\ gen_pc = "extract"
  /\ gen_requests < MaxRequests
  /\ gen_requests' = gen_requests + 1
  /\ gen_out' = Append(gen_out, Marker("REQUEST", "", gen_skills[gen_i], 0, 0))
  /\ UNCHANGED <<languages, verbose, all_skills, unreadable, skills_filter, output_path,
                 files, files_before, index, gen_skills, gen_i, gen_pc, gen_responses>>
  /\ UNCHANGED <<aiVars, loadVars, mergeVars, queryVars, hookVars, showVars, extractVars, buildVars>>

\* the rest of the loop body: extract_skill_metadata returns, the entry is
\* stored and the STATUS marker printed, or an exception leaves the method
GenResponse ==
  /\ gen_pc = "extract"
  /\ \E r \in Responses(languages) :
       /\ r.kind # "exception" => gen_requests >= 1
       /\ LET skill_name == gen_skills[gen_i]
              metadata == ExtractSkillMetadata(r)
          IN /\ gen_responses' = Append(gen_responses, [name |-> skill_name, response |-> r])
             /\ IF CallsAgain(r)
                THEN UNCHANGED <<gen_pc, index, gen_out, gen_i>>
                ELSE IF MetadataRaises(metadata)
                THEN /\ gen_pc' = "raised"
                     /\ UNCHANGED <<index, gen_out, gen_i>>
                ELSE /\ gen_pc' = "loop"
                     /\ gen_i' = gen_i + 1
                     /\ index' = [index EXCEPT ![skill_name] =
                                    IF Truthy(metadata)
                                    THEN ExtractedEntry(metadata.fields, languages)
                                    ELSE FallbackEntry(skill_name, languages)]
                     /\ gen_out' = gen_out \o
                          (IF verbose
                           THEN <<Marker("STATUS",
                                         IF Truthy(metadata) THEN "OK" ELSE "FALLBACK",
                                         skill_name, 0, 0)>>
                           ELSE <<>>)
  /\ UNCHANGED <<languages, verbose, all_skills, unreadable, skills_filter, output_path,
                 files, files_before, gen_skills, gen_requests>>
  /\ UNCHANGED <<aiVars, loadVars, mergeVars, queryVars, hookVars, showVars, extractVars, buildVars>>

\* after the loop: the index is written, as YAML to output_path or as JSON
\* to output_path with the suffix .json, and COMPLETE printed
GenWrite ==
  /\ gen_pc = "loop"
  /\ gen_i > Len(gen_skills)
  /\ files' = IF HAS_YAML
              THEN [files EXCEPT ![output_path] = IndexFile("yaml", index)]
              ELSE [files EXCEPT ![WithSuffixJson(output_path)] = IndexFile("json", index)]
  /\ gen_out' = gen_out \o
       (IF verbose THEN <<Marker("COMPLETE", "", <<>>, CountSkills(index), 0)>> ELSE <<>>)
  /\ gen_pc' = "returned"
  /\ UNCHANGED <<languages, verbose, all_skills, unreadable, skills_filter, output_path,
                 files_before, index, gen_skills, gen_i, gen_requests, gen_responses>>
  /\ UNCHANGED <<aiVars, loadVars, mergeVars, queryVars, hookVars, showVars, extractVars, buildVars>>

\* the skill directories scanned, in the order of iterdir
ScannedSkills ==
  {<<>>, <<NameAb>>, <<NameMySk>>, <<NameAb, NameMySk>>, <<NameMySk, NameAb>>}

\* the filters given: none, names of skills, names of no skill
Filters ==
  {{}, {NameAb}, {NameMySk}, {NameGh}, {NameAb, NameGh}, {NameAb, NameMySk, NameGh}}

\* the index files found: none, an index at either name, both, a file that
\* does not parse
FileStates ==
  { [p \in Paths |-> FileAbsent],
    [p \in Paths |-> IF p = "INDEX.yaml" THEN IndexFile("yaml", OldSkills) ELSE FileAbsent],
    [p \in Paths |-> IF p = "INDEX.json" THEN IndexFile("json", OldSkills) ELSE FileAbsent],
    [p \in Paths |-> IF p = "INDEX.yaml" THEN FileCorrupt ELSE FileAbsent] }

\* a generator about to run generate_index, verbose, on a skills directory
InitGen ==
  /\ IdleClient
  /\ RegistryInit
  /\ MergeIdle
  /\ QueryIdle
  /\ HookIdle
  /\ ShowIdle
  /\ ExtractIdle
  /\ BuildIdle
  /\ HAS_YAML \in BOOLEAN
  /\ languages \in {<<"english">>, <<"spanish", "english">>, <<>>}
  /\ verbose = TRUE
  /\ all_skills \in ScannedSkills
  /\ unreadable \in SUBSET (Range(all_skills) \cap {NameAb})
  /\ skills_filter \in Filters
  /\ output_path \in Paths
  /\ files \in FileStates
  /\ files_before = files
  /\ index = NoSkills
  /\ gen_skills = <<>>
  /\ gen_i = 0
  /\ gen_pc = "idle"
  /\ gen_out = <<>>
  /\ gen_requests = 0
  /\ gen_responses = <<>>

NextGen ==
  \/ GenerateIndexStart
  \/ GenProgress
  \/ GenRequest
  \/ GenResponse
  \/ GenWrite

SpecGen == InitGen /\ [][NextGen]_vars

\* ------------------------------------------------- user-prompt-submit.py
\* what json.load gives for standard input: it raises JSONDecodeError, or
\* the text is a JSON list, string, number, null or object; and for an
\* object its 'prompt': no such key, a string, a number, a list
Stdin(shape, prompt) == [shape |-> shape, prompt |-> prompt]
Prompt(kind, text) == [kind |-> kind, text |-> text]
NoPrompt == Prompt("absent", <<>>)
Stdins ==
  { Stdin(shape, NoPrompt) :
      shape \in {"invalid_json", "list", "string", "number", "null", "object"} }
  \cup { Stdin("object", Prompt("string", text)) : text \in Messages }
  \cup { Stdin("object", Prompt(kind, <<>>)) : kind \in {"zero", "number", "list"} }

\* input_data.get raises AttributeError, which main does not catch: the
\* value is no mapping
InputRaises(stdin) == stdin.shape \in {"list", "string", "number", "null"}

\* "if not user_message": the prompt is absent (''), an empty string or 0
NoUserMessage(stdin) ==
  \/ stdin.prompt.kind \in {"absent", "zero"}
  \/ stdin.prompt.kind = "string" /\ stdin.prompt.text = <<>>

\* user_prompt_submit_hook in classic format: the name of the best match of
\* detect_skills on a new SkillActivator with the default configuration, ""
\* when nothing matches or anything raises (a prompt that is no string has
\* no lower())
UserPromptSubmitHook(prompt, registry, order, fails) ==
  IF fails \/ prompt.kind # "string" THEN <<>>
  ELSE LET keywords == ExtractKeywords(prompt.text)
           cfg == [confidence_threshold |-> 50, max_suggestions |-> 3]
           found == IF NoKeywords(keywords) THEN <<>>
                    ELSE DetectedMatches(keywords,
                                         Considered(keywords, prompt.text, registry, order,
                                                    <<>>, cfg),
                                         cfg)
       IN IF found = <<>> THEN <<>> ELSE <<found[1].name>>

\* a run of main, from json.load to the end of the process: exit status 0
\* by sys.exit(0), 1 when an exception is not caught
HookMain ==
  /\ hook_exit = -1
  /\ IF hook_stdin.shape = "invalid_json"
     THEN hook_exit' = 0 /\ hook_stdout' = <<>>
     ELSE IF InputRaises(hook_stdin)
     THEN hook_exit' = 1 /\ hook_stdout' = <<>>
     ELSE IF NoUserMessage(hook_stdin) \/ ~hook_installed
     THEN hook_exit' = 0 /\ hook_stdout' = <<>>
     ELSE /\ hook_exit' = 0
          /\ hook_stdout' = UserPromptSubmitHook(hook_stdin.prompt, skills,
                                                 insertion_order, hook_fails)
  /\ UNCHANGED <<hook_stdin, hook_installed, hook_fails>>
  /\ UNCHANGED <<aiVars, loadVars, mergeVars, queryVars, genVars, showVars, extractVars, buildVars>>

\* a hook about to run, beside skill directories that give a registry
InitHook ==
  /\ IdleClient
  /\ MergeIdle
  /\ YamlImported
  /\ GeneratorIdle
  /\ ShowIdle
  /\ ExtractIdle
  /\ BuildIdle
  /\ skill_paths = <<"user">>
  /\ pos = 0
  /\ phase = "done"
  /\ fs = <<>>
  /\ skills \in Registries
  /\ insertion_order \in InsertionOrders
  /\ user_message = <<>>
  /\ override_threshold = <<>>
  /\ activator_config = [confidence_threshold |-> 50, max_suggestions |-> 3]
  /\ matches = <<>>
  /\ considered = <<>>
  /\ detected = FALSE
  /\ ScoreIdle
  /\ hook_stdin \in Stdins
  /\ hook_installed \in BOOLEAN
  /\ hook_fails \in BOOLEAN
  /\ hook_stdout = <<>>
  /\ hook_exit = -1

NextHook == HookMain

SpecHook == InitHook /\ [][NextHook]_vars

\* ------------------------------------------------ the layers that show
\* largest max_suggestions of the user configuration file
MaxUserSuggestions == 5

\* min(score, 1.0)
CapAtOne(score) == IF score.num > score.den THEN Score(1, 1) ELSE score

\* int(x * 100): the percentage of the hook formatters
IntPercent(score) == (score.num * 100) \div score.den

\* f"{x:.0%}": x * 100 rounded to the nearest integer, a tie to the even one
RoundPercent(score) ==
  LET twice == score.num * 200
      q == (twice + score.den) \div (2 * score.den)
  IN IF (twice + score.den) % (2 * score.den) = 0 /\ q % 2 = 1 THEN q - 1 ELSE q

\* one skill of an output
Shown(name, group, percent) == [name |-> name, group |-> group, percent |-> percent]

\* format_suggestion: the best match alone in "auto" mode, else every match
FormatSuggestion(ms, cfg_mode) ==
  IF ms = <<>> THEN <<>>
  ELSE IF cfg_mode = "auto"
  THEN <<Shown(ms[1].name, "auto", RoundPercent(CapAtOne(ms[1].score)))>>
  ELSE [i \in 1..Len(ms) |->
          Shown(ms[i].name, "suggest", RoundPercent(CapAtOne(ms[i].score)))]

\* format_classic_output, format_required_output
FormatClassicOutput(m) == <<Shown(m.name, "classic", IntPercent(CapAtOne(m.score)))>>
FormatRequiredOutput(m) == <<Shown(m.name, "required", IntPercent(CapAtOne(m.score)))>>

\* format_enhanced_output: the suggested matches, then the optional ones,
\* as long as fewer than max_suggestions are taken
FormatEnhancedOutput(ms, registry, max_suggestions) ==
  LET suggested == SelectSeq(ms, LAMBDA m : registry[m.name].enforcement = "suggested")
      optional == SelectSeq(ms, LAMBDA m : registry[m.name].enforcement = "optional")
      all_matches == Truncated(suggested \o optional, max_suggestions)
  IN [i \in 1..Len(all_matches) |->
        Shown(all_matches[i].name, registry[all_matches[i].name].enforcement,
              IntPercent(CapAtOne(all_matches[i].score)))]

\* user_prompt_submit_hook after detect_skills: the classic output, the
\* best required match alone, or the enhanced output
HookOutput(ms, registry, cfg) ==
  LET required_matches == SelectSeq(ms, LAMBDA m : registry[m.name].enforcement = "required")
  IN IF ms = <<>> THEN <<>>
     ELSE IF cfg.output_format = "classic" THEN FormatClassicOutput(ms[1])
     ELSE IF required_matches # <<>> THEN FormatRequiredOutput(required_matches[1])
     ELSE FormatEnhancedOutput(ms, registry, cfg.max_suggestions)

\* the listing of find_skills: the score as it is
FindSkillsListing(ms) ==
  [i \in 1..Len(ms) |-> Shown(ms[i].name, "listing", RoundPercent(ms[i].score))]

\* DEFAULT_CONFIG: the configuration of SkillActivator()
DefaultConfig == [confidence_threshold |-> 50, max_suggestions |-> 3]

\* detect_skills on an activator of this configuration and override
Detect(message, registry, order, override, cfg) ==
  LET keywords == ExtractKeywords(message)
      loop == IF NoKeywords(keywords) THEN <<>>
              ELSE Considered(keywords, message, registry, order, override, cfg)
  IN [considered |-> loop, matches |-> DetectedMatches(keywords, loop, cfg)]

\* process_message: detect_skills, then format_suggestion
ProcessMessage ==
  /\ show_layer = "none"
  /\ LET d == Detect(user_message, skills, insertion_order, override_threshold,
                     activator_config)
     IN /\ considered' = d.considered
        /\ matches' = d.matches
        /\ shown' = FormatSuggestion(d.matches, activator_mode)
  /\ detected' = TRUE
  /\ show_layer' = "process_message"
  /\ UNCHANGED <<user_message, override_threshold, activator_config, insertion_order>>
  /\ UNCHANGED <<user_config, activator_mode>>
  /\ UNCHANGED <<aiVars, loadVars, mergeVars, scoreVars, genVars, hookVars, extractVars, buildVars>>

\* user_prompt_submit_hook: detect_skills on a new SkillActivator(), then
\* the output of the configured format
HookSuggest ==
  /\ show_layer = "none"
  /\ LET d == Detect(user_message, skills, insertion_order, <<>>, DefaultConfig)
     IN /\ considered' = d.considered
        /\ matches' = d.matches
        /\ shown' = HookOutput(d.matches, skills, user_config)
  /\ detected' = TRUE
  /\ show_layer' = "hook"
  /\ UNCHANGED <<user_message, override_threshold, activator_config, insertion_order>>
  /\ UNCHANGED <<user_config, activator_mode>>
  /\ UNCHANGED <<aiVars, loadVars, mergeVars, scoreVars, genVars, hookVars, extractVars, buildVars>>

\* find_skills of the interactive wizard: the activator's override is set
\* to the threshold entered, then detect_skills and the listing
FindSkills ==
  /\ show_layer = "none"
  /\ \E threshold \in {10, 50, 100} :
       /\ override_threshold' = <<threshold>>
       /\ LET d == Detect(user_message, skills, insertion_order, <<threshold>>,
                          activator_config)
          IN /\ considered' = d.considered
             /\ matches' = d.matches
             /\ shown' = FindSkillsListing(d.matches)
  /\ detected' = TRUE
  /\ show_layer' = "find_skills"
  /\ UNCHANGED <<user_message, activator_config, insertion_order>>
  /\ UNCHANGED <<user_config, activator_mode>>
  /\ UNCHANGED <<aiVars, loadVars, mergeVars, scoreVars, genVars, hookVars, extractVars, buildVars>>

\* the registries shown: five skills of the keyword "debug", each of high
\* priority and suggested, of medium priority and optional, of low
\* priority and required, or not activating by itself
ShowNames == {"s1", "s2", "s3", "s4", "s5"}
ShowRecords(n) ==
  { Metadata(n, <<1, n>>, "user", "high", "suggested", <<>>, <<>>,
             <<<<"d", "e", "b", "u", "g">>>>, <<>>, <<>>, <<>>, TRUE, 50),
    Metadata(n, <<1, n>>, "user", "medium", "optional", <<>>, <<>>,
             <<<<"d", "e", "b", "u", "g">>>>, <<>>, <<>>, <<>>, TRUE, 50),
    Metadata(n, <<1, n>>, "user", "low", "required", <<>>, <<>>,
             <<<<"d", "e", "b", "u", "g">>>>, <<>>, <<>>, <<>>, TRUE, 50),
    Metadata(n, <<1, n>>, "user", "medium", "suggested", <<>>, <<>>,
             <<<<"d", "e", "b", "u", "g">>>>, <<>>, <<>>, <<>>, FALSE, 50) }
ShowRegistries ==
  {r \in [ShowNames -> UNION {ShowRecords(n) : n \in ShowNames}] :
     /\ \A n \in ShowNames : r[n].name = n
     /\ \A n \in {"s3", "s4", "s5"} : r[n].enforcement # "required" /\ r[n].auto_activate}

\* a registry that was built, a message, and the configurations
InitShow ==
  /\ GeneratorIdle
  /\ HookIdle
  /\ ExtractIdle
  /\ BuildIdle
  /\ IdleClient
  /\ MergeIdle
  /\ ScoreIdle
  /\ YamlImported
  /\ skill_paths = <<"user">>
  /\ pos = 0
  /\ phase = "done"
  /\ fs = <<>>
  /\ skills \in ShowRegistries
  /\ insertion_order = <<"s1", "s2", "s3", "s4", "s5">>
  /\ user_message = MessageDebug
  /\ override_threshold = <<>>
  /\ activator_config \in [confidence_threshold : {50}, max_suggestions : {1, 3}]
  /\ matches = <<>>
  /\ considered = <<>>
  /\ detected = FALSE
  /\ user_config \in [output_format : {"classic", "enhanced"},
                      max_suggestions : 1..MaxUserSuggestions]
  /\ activator_mode \in {"suggest", "auto"}
  /\ show_layer = "none"
  /\ shown = <<>>

NextShow == ProcessMessage \/ HookSuggest \/ FindSkills

SpecShow == InitShow /\ [][NextShow]_vars

\* ------------------------------------ the intent bonus of the match score
\* longest list of intent patterns scored
MaxPatterns == 2

\* the intent patterns: "ab", "ab.*cd", "cd.*ab", "(" (re.error), and
\* "a{99999999999999999999}" (OverflowError)
IntentPatterns ==
  {Pattern(TRUE, <<<<"a", "b">>>>),
   Pattern(TRUE, <<<<"a", "b">>, <<"c", "d">>>>),
   Pattern(TRUE, <<<<"c", "d">>, <<"a", "b">>>>),
   Pattern(FALSE, <<>>),
   RaisingPattern}

\* the skills scored: the keyword "ab" and a list of intent patterns
IntentSkills ==
  { Metadata("s", <<1, "s">>, "user", "medium", "suggested", <<>>, <<>>,
             <<<<"a", "b">>>>, <<>>, <<>>, ps, TRUE, 50) :
      ps \in SeqsUpTo(IntentPatterns, MaxPatterns) }

\* "", "AB cd", "cd"
IntentMessages ==
  {<<>>, <<"A", "B", " ", "c", "d">>, <<"c", "d">>}

\* two calls of _calculate_match_score for the same keywords and message:
\* on the skill without its intent patterns and on the skill as it is
ScoreIntent ==
  /\ ~scored
  /\ scored_skill.present
  /\ IF ScoreRaises(score_keywords, scored_skill, score_message)
     THEN /\ score_raised' = TRUE
          /\ UNCHANGED <<score_before, score_after>>
     ELSE /\ score_raised' = FALSE
          /\ score_before' = RawScore(score_keywords,
                                      [scored_skill EXCEPT !.intent_patterns = <<>>],
                                      score_message)
          /\ score_after' = RawScore(score_keywords, scored_skill, score_message)
  /\ scored' = TRUE
  /\ UNCHANGED <<score_keywords, extra_keyword, scored_skill, score_message>>
  /\ UNCHANGED <<aiVars, loadVars, mergeVars, detectVars, toolVars>>

InitIntent ==
  /\ ToolsIdle
  /\ IdleClient
  /\ RegistryInit
  /\ YamlImported
  /\ MergeIdle
  /\ DetectIdle
  /\ score_keywords \in {<<>>, <<<<"a", "b">>>>, <<<<"c", "d">>, <<"a", "b">>>>}
  /\ extra_keyword = <<>>
  /\ scored_skill \in IntentSkills
  /\ score_message \in IntentMessages
  /\ score_before = 0
  /\ score_after = 0
  /\ scored = FALSE
  /\ score_raised = FALSE

NextIntent == ScoreIntent

SpecIntent == InitIntent /\ [][NextIntent]_vars

\* ------------------------------------------------------ _extract_keywords
\* most tokens of a text given to _extract_keywords
MaxTokens == 2

\* the tokens of the texts: a stem of one, two or three Hangul syllables
\* (U+D55C, U+ACE0, U+BB34), alone or followed by the particle U+AC00,
\* U+C5D0, U+C5D0 U+C11C, U+C5D0 U+AC8C, or by U+B3C4 U+B9CC (two
\* particles, one after the other); and the words "the" and "bugs"
Stems == {<<"U+D55C">>, <<"U+D55C", "U+ACE0">>, <<"U+D55C", "U+ACE0", "U+BB34">>}
Endings ==
  {<<>>, <<"U+AC00">>, <<"U+C5D0">>, <<"U+C5D0", "U+C11C">>, <<"U+C5D0", "U+AC8C">>,
   <<"U+B3C4", "U+B9CC">>}
Tokens ==
  {stem \o ending : stem \in Stems, ending \in Endings}
  \cup {<<"t", "h", "e">>, <<"B", "u", "g", "s">>}

\* the tokens of a list, one space between them
RECURSIVE Joined(_)
Joined(ts) ==
  IF ts = <<>> THEN <<>>
  ELSE IF Len(ts) = 1 THEN ts[1]
  ELSE ts[1] \o <<" ">> \o Joined(Tail(ts))

ExtractTexts == {Joined(ts) : ts \in SeqsUpTo(Tokens, MaxTokens)}

\* _extract_keywords(text)
ExtractCall ==
  /\ ~extract_done
  /\ extracted' = ExtractKeywords(extract_text)
  /\ extract_done' = TRUE
  /\ UNCHANGED extract_text
  /\ UNCHANGED <<aiVars, loadVars, mergeVars, queryVars, genVars, hookVars, showVars, buildVars>>

InitExtract ==
  /\ GeneratorIdle
  /\ HookIdle
  /\ ShowIdle
  /\ BuildIdle
  /\ IdleClient
  /\ RegistryInit
  /\ YamlImported
  /\ MergeIdle
  /\ QueryIdle
  /\ extract_text \in ExtractTexts
  /\ extracted = <<>>
  /\ extract_done = FALSE

NextExtract == ExtractCall

SpecExtract == InitExtract /\ [][NextExtract]_vars

\* ------------------------------------------------ SkillActivator.__init__
\* a configuration taken from the artifact's sections
ActivatorConfig_FromArtifact(cfg, sections) ==
  [confidence_threshold |-> Get(cfg.confidence_threshold,
                                sections.activation_config.confidence_threshold),
   max_suggestions |-> Get(cfg.max_suggestions, sections.activation_config.max_suggestions)]

\* self.config after __init__ and _load_all_skills:
\* {**DEFAULT_CONFIG, **config}; _load_index_yaml reads data['skills'] and
\* no other key of the artifact
ActivatorConfig(cfg, sections) ==
  [confidence_threshold |-> Get(cfg.confidence_threshold, DefaultConfig.confidence_threshold),
   max_suggestions |-> Get(cfg.max_suggestions, DefaultConfig.max_suggestions)]

\* the config arguments: none, a threshold, a count, both
ConstructorConfigs ==
  {ConstructorConfig(t, m) : t \in {<<>>, <<30>>}, m \in {<<>>, <<2>>}}

\* the sections of the artifacts: what generate_index writes, and other
\* thresholds, counts and weights
ArtifactSections ==
  {Sections(50, 3, 6), Sections(90, 3, 6), Sections(50, 1, 6), Sections(90, 1, 2)}

\* a SkillActivator built over an artifact, and a message for it
InitSections ==
  /\ GeneratorIdle
  /\ HookIdle
  /\ ShowIdle
  /\ ExtractIdle
  /\ IdleClient
  /\ MergeIdle
  /\ ScoreIdle
  /\ YamlImported
  /\ skill_paths = <<"user">>
  /\ pos = 0
  /\ phase = "done"
  /\ fs = <<>>
  /\ skills \in Registries
  /\ insertion_order \in InsertionOrders
  /\ user_message = MessageDebugError
  /\ override_threshold = <<>>
  /\ constructor_config \in ConstructorConfigs
  /\ artifact_sections \in ArtifactSections
  /\ activator_config = ActivatorConfig(constructor_config, artifact_sections)
  /\ matches = <<>>
  /\ considered = <<>>
  /\ detected = FALSE

SpecSections == InitSections /\ [][NextDetect]_vars

\* ------------------------------------------------------------------ claims
IsRequest(k) == trace[k].ev = "request"
IsGate(k) == trace[k].ev = "gate"
RequestsAt(i) == {k \in 1..Len(trace) : IsRequest(k) /\ trace[k].idx = i}
\* the requests among the events after the first n, in order
RequestsAfter(n) ==
  SelectSeq(SubSeq(trace, n + 1, Len(trace)), LAMBDA e : e.ev = "request")

\* C1: within one generate call the requests visit the candidate list in
\* order: a later request never targets an earlier position of
\* [primary] + fallbacks than an earlier request did, and each request
\* carries the model at its position.
C1_ModelsInOrder ==
  LET reqs == RequestsAfter(0)
  IN /\ \A k \in 1..Len(reqs) : reqs[k].model = models_to_try[reqs[k].idx]
     /\ \A k \in 1..(Len(reqs) - 1) : reqs[k].idx <= reqs[k + 1].idx

C1_Witness ==
  /\ Len(trace) >= 6
  /\ IsRequest(2) /\ IsRequest(4) /\ IsRequest(6)
  /\ trace[2].idx = 1 /\ trace[4].idx = 1 /\ trace[6].idx = 2

\* C2: after an attempt failed with a not-found error no later request of
\* the call targets that position, whatever retries remained, and the
\* next request targets the next position of the list.
C2_NotFoundAbandonsModel ==
  \A n \in 1..Len(notfound) :
    LET f == notfound[n]
        later == RequestsAfter(f.nreq)
    IN /\ \A k \in 1..Len(later) : later[k].idx # f.idx
       /\ later # <<>> => later[1].idx = f.idx + 1

\* primary "x" fails not-found on its first attempt with retries left and
\* fallback ["y"]: "x" was requested once, then "y"
C2_Witness ==
  /\ models_to_try = <<"x", "y">>
  /\ config.max_retries = 2
  /\ Len(notfound) >= 1 /\ notfound[1] = [idx |-> 1, nreq |-> 2]
  /\ Cardinality(RequestsAt(1)) = 1
  /\ Len(trace) >= 4 /\ IsRequest(4) /\ trace[4].model = "y"

\* C3: every request of generate comes directly after one completed
\* wait_if_needed of the same attempt: requests and gate passes alternate,
\* and there are as many of the one as of the other once the request of
\* the running attempt is out.
C3_GateBeforeEveryRequest ==
  /\ \A k \in 1..Len(trace) :
       IsRequest(k) => /\ k > 1
                       /\ IsGate(k - 1)
                       /\ trace[k - 1].idx = trace[k].idx
  /\ \A k \in 1..Len(trace) :
       (IsGate(k) /\ k < Len(trace)) => IsRequest(k + 1)
  /\ (pc # "request") =>
       Cardinality({k \in 1..Len(trace) : IsGate(k)})
         = Cardinality({k \in 1..Len(trace) : IsRequest(k)})

\* a retry and a fallback attempt have both gone through the gate
C3_Witness ==
  /\ Len(trace) = 6
  /\ pc = "returned"
  /\ trace[3].idx = 1 /\ IsGate(3) /\ IsRequest(4)
  /\ trace[5].idx = 2 /\ IsGate(5) /\ IsRequest(6)

\* C4: two consecutive timestamps recorded by wait_if_needed are at least
\* the minimum delay apart.
C4_MinDelayBetweenCalls ==
  \A k \in 2..Len(recorded) :
    recorded[k] - recorded[k - 1] >= config.rate_limit_delay

\* the second call came too early and was held back to the minimum delay
C4_Witness ==
  /\ config.rate_limit_delay > 0
  /\ config.rate_limit_rpm > 1
  /\ Len(recorded) >= 2
  /\ recorded[2] - recorded[1] = config.rate_limit_delay

\* C5: with a cap rpm >= 1, any rpm + 1 recorded timestamps span at least
\* the 60 s window, and the retained list never holds more than rpm
\* entries.
C5_RpmCap ==
  config.rate_limit_rpm >= 1 =>
    /\ Len(request_times) <= config.rate_limit_rpm
    /\ \A i, j \in 1..Len(recorded) :
         j - i >= config.rate_limit_rpm => recorded[j] - recorded[i] >= Window

\* the cap was reached and the call waited for the oldest timestamp to age
C5_Witness ==
  /\ config.rate_limit_rpm = 2
  /\ Len(recorded) >= 3
  /\ recorded[3] - recorded[1] = Window + Buffer
  /\ Len(request_times) = 2

\* C6: when generate raises, every position of the candidate list is
\* exhausted (all max_retries attempts made, or a not-found failure), and
\* the error raised is that of the last attempt made.
C6_RaisesAfterAllModels ==
  pc = "raised" =>
    /\ \A i \in 1..Len(models_to_try) :
         \/ attempts[i] = config.max_retries
         \/ \E n \in 1..Len(notfound) : notfound[n].idx = i
    /\ result.kind = "raised"
    /\ result.error = (IF last_failure.valid THEN last_failure.error ELSE NoneError)

\* both models failed, the second one with another error than the first
C6_Witness ==
  /\ pc = "raised"
  /\ Len(models_to_try) = 2
  /\ attempts[1] = 2 /\ attempts[2] = 2
  /\ last_failure.valid /\ last_failure.idx = 2
  /\ result.error = Exc(FALSE, FALSE, TRUE)

\* C7: the model used inside a call does not persist: after the call
\* config.model is what it was before, and the first request of every
\* call targets the primary model.
C7_ModelDoesNotStick ==
  /\ (pc \in {"returned", "raised"}) => config.model = model_before
  /\ config.model = primary
  /\ LET reqs == RequestsAfter(0)
     IN reqs # <<>> => reqs[1].model = primary

\* the previous call succeeded on the fallback model, and this call has
\* made its first request
C7_Witness ==
  /\ calls = 2
  /\ prev_success_idx = 2
  /\ models_to_try[2] # primary
  /\ Len(trace) >= 2 /\ IsRequest(2)

\* C8: the sleep after a failed attempt with retry index r is
\* 2 * retry_delay * (r+1) for rate-limited, retry_delay * (r+1) for server
\* error, retry_delay for another failure with r < max_retries - 1, and
\* none for not-found or for another failure on the last retry; a failure
\* other than not-found keeps the model while retries remain.
C8_BackoffByClass ==
  last_failure.valid =>
    LET f == last_failure
        rd == config.retry_delay
    IN /\ f.class = "rate" => f.sleeps = <<2 * rd * (f.retry + 1)>>
       /\ f.class = "server" => f.sleeps = <<rd * (f.retry + 1)>>
       /\ (f.class = "other" /\ f.retry < config.max_retries - 1) => f.sleeps = <<rd>>
       /\ (f.class = "other" /\ f.retry >= config.max_retries - 1) => f.sleeps = <<>>
       /\ f.class = "notfound" => f.sleeps = <<>>
       /\ (pc = "gate" /\ f.class # "notfound" /\ f.retry + 1 < config.max_retries) =>
            (model_idx = f.idx /\ retry = f.retry + 1)

\* a rate-limited failure on the second try of a model
C8_Witness ==
  /\ last_failure.valid
  /\ last_failure.class = "rate"
  /\ last_failure.retry = 1
  /\ last_failure.sleeps = <<80>>

\* C9: in a merge of an artifact entry into an existing record, a list of
\* the record (keywords, tags, use cases) that is not empty is not replaced
\* by an empty list of the entry, and a priority, confidence threshold or
\* auto_activate of the record that is not the default is not replaced by
\* the entry's default ("medium", 0.5, true).
C9_MergeKeepsWhatEntryLacks ==
  merge_result.present =>
    LET e == merge_existing
        i == merge_indexed
        r == merge_result
    IN /\ (e.keywords_korean # <<>> /\ i.keywords_korean = <<>>)
            => r.keywords_korean = e.keywords_korean
       /\ (e.keywords_english # <<>> /\ i.keywords_english = <<>>)
            => r.keywords_english = e.keywords_english
       /\ (e.tags # <<>> /\ i.tags = <<>>) => r.tags = e.tags
       /\ (e.use_cases # <<>> /\ i.use_cases = <<>>) => r.use_cases = e.use_cases
       /\ (e.priority # "medium" /\ i.priority = "medium") => r.priority = e.priority
       /\ (e.confidence_threshold # 50 /\ i.confidence_threshold = 50)
            => r.confidence_threshold = e.confidence_threshold
       /\ (~e.auto_activate /\ i.auto_activate) => r.auto_activate = e.auto_activate

\* a record with its own tags, priority, threshold and auto_activate met
\* an entry that has only defaults for them
C9_Witness ==
  /\ merge_result.present
  /\ merge_existing.tags = <<"doc-tag">> /\ merge_indexed.tags = <<>>
  /\ merge_existing.priority = "high" /\ merge_indexed.priority = "medium"
  /\ merge_existing.confidence_threshold = 70 /\ merge_indexed.confidence_threshold = 50
  /\ ~merge_existing.auto_activate /\ merge_indexed.auto_activate
  /\ merge_result.priority = "high"

\* the document and the artifact entry of Scenario A
ScenarioDocument ==
  Document(TRUE, "medium", <<"Finds bugs">>, <<"debug", "error">>, <<>>, <<>>, TRUE, 50)
ScenarioEntry ==
  Entry("medium", <<>>, <<>>, <<>>, <<"diagnostics">>, <<>>, <<>>, TRUE, 50, TRUE)

\* the position of a source in skill_paths (0: not there)
PositionOf(source) ==
  IF \E k \in 1..Len(skill_paths) : skill_paths[k] = source
  THEN CHOOSE k \in 1..Len(skill_paths) : skill_paths[k] = source
  ELSE 0

\* name n is defined by document doc at position d, by entry e at position
\* a, and by nothing else
DefinedOnlyBy(n, d, doc, a, e) ==
  /\ d > 0 /\ a > 0
  /\ \A k \in 1..Len(skill_paths) :
       /\ fs[k][n].doc = (IF k = d THEN doc ELSE NoDocument)
       /\ fs[k][n].entry = (IF k = a THEN e ELSE NoEntry)

\* C10: a name defined by a document in the project tier
\* (keywords ["debug","error"], no tags) and by an artifact entry in the
\* user tier (tags ["diagnostics"]) ends up as one record with the
\* document's keywords and the entry's tags.
C10_ArtifactOfAnotherTierFills ==
  \A n \in Names :
    (phase = "done" /\ DefinedOnlyBy(n, PositionOf("project"), ScenarioDocument,
                                     PositionOf("user"), ScenarioEntry)) =>
      /\ skills[n].present
      /\ skills[n].keywords_english = <<"debug", "error">>
      /\ skills[n].tags = <<"diagnostics">>

\* the list fields of a record
ListFields == {"keywords_korean", "keywords_english", "tags", "use_cases", "intent_patterns"}
RecordList(r, f) ==
  CASE f = "keywords_korean" -> r.keywords_korean
    [] f = "keywords_english" -> r.keywords_english
    [] f = "tags" -> r.tags
    [] f = "use_cases" -> r.use_cases
    [] OTHER -> r.intent_patterns

\* the record of name n was established by a tier of lower priority than
\* the directory being processed
FromLowerTier(n) ==
  /\ phase \in {"docs", "index"}
  /\ skills[n].present
  /\ skills[n].source # skill_paths[pos]

\* C11: no step of the build that processes a document or an artifact of a
\* higher-priority tier turns a non-empty list (keywords, tags, use cases,
\* intent patterns) of a record established by a lower-priority tier into
\* an empty one, so that list is still non-empty in the final record.
C11_HigherTierNeverErases ==
  [][\A n \in Names, f \in ListFields :
       (FromLowerTier(n) /\ RecordList(skills[n], f) # <<>>)
         => RecordList(skills'[n], f) # <<>>]_vars

\* C12 as stated: in a merge of an artifact entry into an existing record
\* the entry's priority and threshold replace the record's whatever they
\* are ("medium" and 0.5 included), and the entry's auto_activate = false
\* makes the record's false.
C12_ArtifactScalarsAlwaysReplace ==
  merge_result.present =>
    /\ merge_result.priority = merge_indexed.priority
    /\ merge_result.confidence_threshold = merge_indexed.confidence_threshold
    /\ (~merge_indexed.auto_activate => ~merge_result.auto_activate)

\* C12 as amended: the entry's priority replaces the record's when it is
\* not "medium", its threshold when it is not 0.5, and the record's values
\* stay otherwise; the entry's auto_activate = false makes the record's
\* false, and auto_activate = true leaves it as it was.
C12_ArtifactScalarsReplaceUnlessDefault ==
  merge_result.present =>
    /\ merge_result.priority = (IF merge_indexed.priority # "medium"
                                THEN merge_indexed.priority
                                ELSE merge_existing.priority)
    /\ merge_result.confidence_threshold = (IF merge_indexed.confidence_threshold # 50
                                            THEN merge_indexed.confidence_threshold
                                            ELSE merge_existing.confidence_threshold)
    /\ (~merge_indexed.auto_activate => ~merge_result.auto_activate)
    /\ (merge_indexed.auto_activate
          => merge_result.auto_activate = merge_existing.auto_activate)

\* an entry of priority "medium", threshold 0.8 and auto_activate false met
\* a record of priority "high", threshold 0.7 and auto_activate true
C12_Witness ==
  /\ merge_result.present
  /\ merge_existing.priority = "high" /\ merge_indexed.priority = "medium"
  /\ merge_existing.confidence_threshold = 70 /\ merge_indexed.confidence_threshold = 80
  /\ merge_existing.auto_activate /\ ~merge_indexed.auto_activate
  /\ merge_result.confidence_threshold = 80 /\ ~merge_result.auto_activate

\* C13: in a merge of an artifact entry into an existing record, every list
\* (keywords of each language, tags, use cases, intent patterns) that is
\* empty on the record becomes the entry's list; so a record without intent
\* patterns carries the entry's intent patterns after the merge.
C13_EmptyListsTakeEntrys ==
  merge_result.present =>
    \A f \in ListFields :
      RecordList(merge_existing, f) = <<>>
        => RecordList(merge_result, f) = RecordList(merge_indexed, f)

\* C14: no content of a skill document (no metadata block, a block that
\* does not parse, one that parses to something that is not a mapping, a
\* mapping with a confidence_threshold that is no number) makes the
\* construction of the registry fail: the document gives a record or is
\* skipped and the build goes on.
C14_BadDocumentNeverFailsTheBuild ==
  phase = "raised" => \A n \in Names : ~DocumentRaises(fs[pos][n].doc)

\* C15: no content of an index artifact (unreadable, invalid syntax, a
\* 'skills' value that is null or not a mapping, an entry with an ill-typed
\* field such as a confidence_threshold that is no number) makes the
\* construction of the registry fail: the artifact or the entry is skipped
\* and the build goes on.
C15_BadArtifactNeverFailsTheBuild ==
  phase = "raised" => \A n \in Names : ~EntryRaises(fs[pos][n].entry)

\* the names detect_skills returned
Returned == {matches[i].name : i \in 1..Len(matches)}
\* the messages that have no keyword
KeywordlessMessages == {MessageEmpty, MessageStopwords, MessageShortTokens}

\* C16: for a message whose normalization yields no keyword (the empty
\* text, tokens of one character, stopwords only such as "the a is"),
\* detect_skills returns the empty list, whatever the registry, the
\* override and the configuration.
C16_NoKeywordsNoCandidates ==
  (detected /\ (user_message \in KeywordlessMessages
                  \/ ExtractKeywords(user_message) = <<>>))
    => matches = <<>>

\* "the a is" was given to a registry with a skill that auto-activates,
\* under an override threshold of 0 and max_suggestions >= 1
C16_Witness ==
  /\ detected
  /\ user_message = MessageStopwords
  /\ override_threshold = <<0>>
  /\ activator_config.max_suggestions >= 1
  /\ \E n \in RegistryNames : skills[n].auto_activate
  /\ considered = <<>>
  /\ matches = <<>>

\* the threshold that the precedence "override, then the record's own
\* whatever its value, then the global one" gives a record
PrecedenceThreshold(n) ==
  IF override_threshold # <<>> THEN override_threshold[1]
  ELSE skills[n].confidence_threshold

\* the records of the loop whose score reaches the precedence's threshold
ReachPrecedence ==
  {i \in 1..Len(considered) :
     ReachesThreshold(considered[i].score, PrecedenceThreshold(considered[i].name))}

\* C17: the threshold detect_skills applies to a record is the override
\* when one is given (0 included), otherwise the record's own
\* confidence_threshold whatever its value (0 included); a record is
\* returned only if it auto-activates and its score reaches that
\* threshold, and every such record is returned when no more than
\* max_suggestions of them exist.
C17_ThresholdPrecedence ==
  detected =>
    /\ \A i \in 1..Len(considered) :
         considered[i].threshold = PrecedenceThreshold(considered[i].name)
    /\ \A n \in Returned :
         /\ skills[n].auto_activate
         /\ \E i \in ReachPrecedence : considered[i].name = n
    /\ Cardinality(ReachPrecedence) <= activator_config.max_suggestions
         => \A i \in ReachPrecedence : considered[i].name \in Returned

\* the records of the loop that qualified
Qualifying == {i \in 1..Len(considered) : Qualifies(considered[i])}

\* C18: the list detect_skills returns is sorted by score, highest first,
\* has at most max_suggestions elements, holds only records that
\* qualified, and no record that qualified and was left out has a score
\* strictly greater than a record that was returned.
C18_SortedTopK ==
  detected =>
    /\ \A i \in 1..Len(matches) : \A j \in (i + 1)..Len(matches) :
         ScoreAtLeast(matches[i].score, matches[j].score)
    /\ Len(matches) <= activator_config.max_suggestions
    /\ \A n \in Returned : \E i \in Qualifying : considered[i].name = n
    /\ \A i \in Qualifying :
         considered[i].name \notin Returned
           => \A k \in 1..Len(matches) :
                ScoreAtLeast(matches[k].score, considered[i].score)

\* two records of different scores were returned and a third that
\* qualified was left out
C18_Witness ==
  /\ detected
  /\ Len(matches) = 2
  /\ ~ScoreAtLeast(matches[2].score, matches[1].score)
  /\ Cardinality(Qualifying) = 3

\* C19: for a skill, a message and a keyword list, the raw score of the
\* list with one more keyword, which equals a skill keyword and is not yet
\* in the list, is strictly greater than the raw score of the list; also
\* when the new keyword makes a compound match that takes a keyword which
\* scored on its own before.
C19_OneMoreKeywordScoresMore ==
  (scored /\ extra_keyword \in Range(SkillKeywords(scored_skill))
          /\ extra_keyword \notin Range(score_keywords))
    => score_after > score_before

\* "cd" scored 3.0 on its own; with "ab" both are parts of "abcd" and the
\* compound match gives 5.0
C19_Witness ==
  /\ scored
  /\ score_keywords = <<<<"c", "d">>>>
  /\ extra_keyword = <<"a", "b">>
  /\ scored_skill.keywords_english = <<<<"a", "b", "c", "d">>, <<"a", "b">>, <<"c", "d">>>>
  /\ scored_skill.use_cases = <<>>
  /\ score_message = <<>>
  /\ score_before = 6
  /\ score_after = 10

\* the skill of Scenario B under a name: keywords ["debug","error","bug"],
\* priority medium, threshold 0.5, auto-activating
ScenarioBSkill(n) ==
  Metadata(n, <<1, n>>, "user", "medium", "suggested", <<>>, <<>>,
           <<<<"d", "e", "b", "u", "g">>, <<"e", "r", "r", "o", "r">>, <<"b", "u", "g">>>>, <<>>, <<>>, <<>>, TRUE, 50)

\* C20: "fix bug in payment flow" scores 0.5 or more against the skill of
\* Scenario B, which is among the candidates; it is returned whenever no
\* more than max_suggestions records qualify.
C20_ScenarioB ==
  \A n \in RegistryNames :
    (detected /\ user_message = MessageScenarioB /\ override_threshold = <<>>
       /\ skills[n] = ScenarioBSkill(n))
      => /\ \E i \in Qualifying :
              /\ considered[i].name = n
              /\ ReachesThreshold(considered[i].score, 50)
         /\ Cardinality(Qualifying) <= activator_config.max_suggestions
              => n \in Returned

\* the skill of Scenario B was returned first, with a score of 0.75
C20_Witness ==
  /\ detected
  /\ user_message = MessageScenarioB
  /\ override_threshold = <<>>
  /\ skills["s1"] = ScenarioBSkill("s1")
  /\ matches # <<>>
  /\ matches[1].name = "s1"
  /\ matches[1].score.num * 4 = matches[1].score.den * 3

\* the distinct user keywords, of two characters or more, that are part of
\* a skill keyword
DistinctParts(user_keywords, skill_kw) ==
  {w \in Range(user_keywords) : Contains(w, skill_kw) /\ Len(w) >= 2}

\* C21: in the compound pass the count for a skill keyword is the number
\* of distinct user keywords that are part of it, so a list that repeats
\* one keyword never makes a compound match.
C21_CompoundCountsDistinct ==
  scored =>
    LET skill_keywords == SkillKeywords(scored_skill)
    IN /\ \A k \in 1..Len(skill_keywords) :
            Cardinality(MatchingParts(score_keywords, skill_keywords[k]))
              = Cardinality(DistinctParts(score_keywords, skill_keywords[k]))
       /\ Cardinality(Range(score_keywords)) = 1
            => CompoundScore(score_keywords, skill_keywords) = 0

\* the rules of the per-keyword pass that apply to a keyword, by rank: 1
\* exact skill keyword, 2 use-case keyword, 3 description keyword, 4 fuzzy
\* match, 5 tag
ApplicableRules(w, skill) ==
  LET skill_keywords == SkillKeywords(skill)
  IN {r \in 1..5 :
        \/ r = 1 /\ \E k \in 1..Len(skill_keywords) : skill_keywords[k] = w
        \/ r = 2 /\ w \in UseCaseKeywords(skill)
        \/ r = 3 /\ w \in DescKeywords(skill)
        \/ r = 4 /\ \E k \in 1..Len(skill_keywords) :
                      LET sk == skill_keywords[k]
                      IN \/ /\ Contains(w, sk) \/ Contains(sk, w)
                            /\ Len(w) >= 4 /\ Len(sk) >= 4
                            /\ Len(w) - Len(sk) <= 3 /\ Len(sk) - Len(w) <= 3
                         \/ /\ Len(w) >= 5 /\ Len(sk) >= 5
                            /\ SubSeq(w, 1, 5) = SubSeq(sk, 1, 5)
        \/ r = 5 /\ \E i \in 1..Len(skill.tags) : Lower(skill.tags[i]) = w}

\* the weight of a rule, in halves
RuleWeight(r) ==
  CASE r = 1 -> exact_match
    [] r = 2 -> use_case_match
    [] r = 3 -> partial_match
    [] r = 4 -> partial_match
    [] r = 5 -> tag_match

\* the weight of the first rule that applies to a keyword, 0 when none does
FirstRuleWeight(w, skill) ==
  LET rules == ApplicableRules(w, skill)
  IN IF rules = {} THEN 0
     ELSE RuleWeight(CHOOSE r \in rules : \A q \in rules : r <= q)

\* the user keywords the compound pass took: those that are, with another
\* entry of the list, part of one skill keyword
TakenByCompound(user_keywords, skill) ==
  LET skill_keywords == SkillKeywords(skill)
  IN {user_keywords[i] : i \in
        {i \in 1..Len(user_keywords) :
           \E k \in 1..Len(skill_keywords) : \E j \in 1..Len(user_keywords) :
              /\ j # i
              /\ Contains(user_keywords[i], skill_keywords[k])
              /\ Contains(user_keywords[j], skill_keywords[k])
              /\ Len(user_keywords[i]) >= 2 /\ Len(user_keywords[j]) >= 2}}

\* the sum of the first-rule weights of a set of keywords
RECURSIVE SumFirstRule(_, _)
SumFirstRule(ws, skill) ==
  IF ws = {} THEN 0
  ELSE LET w == CHOOSE x \in ws : TRUE
       IN FirstRuleWeight(w, skill) + SumFirstRule(ws \ {w}, skill)

\* what the per-keyword pass added to the score of the first call: the raw
\* score less the intent, primary, compound, use-case and stemming parts
PerKeywordPart ==
  score_before
    - IntentScore(scored_skill, score_message)
    - PrimaryScore(scored_skill, score_message)
    - CompoundScore(score_keywords, SkillKeywords(scored_skill))
    - UseCaseBonus(score_keywords,
                   [i \in 1..Len(scored_skill.use_cases) |-> Lower(scored_skill.use_cases[i])])
    - StemBonus(score_keywords, UseCaseKeywords(scored_skill))

\* C22: in the per-keyword pass a keyword the compound pass did not take
\* adds the weight of the first rule that applies to it, in the order
\* exact, use case, description, fuzzy, tag, once, and nothing when no rule
\* applies; a keyword the compound pass took adds nothing.
C22_FirstRuleOnce ==
  (scored /\ score_keywords # <<>>)
    => PerKeywordPart
         = SumFirstRule(Range(score_keywords) \ TakenByCompound(score_keywords, scored_skill),
                        scored_skill)

\* "abcd" was a use-case and a description keyword and scored as a use-case
\* keyword; "cd" was a tag only
C22_Witness ==
  /\ scored
  /\ score_keywords = <<<<"a", "b", "c", "d">>, <<"c", "d">>>>
  /\ scored_skill.keywords_english = <<<<"a", "b">>>>
  /\ scored_skill.description # <<>>
  /\ scored_skill.use_cases # <<>>
  /\ scored_skill.tags # <<>>
  /\ ApplicableRules(<<"a", "b", "c", "d">>, scored_skill) = {2, 3}
  /\ ApplicableRules(<<"c", "d">>, scored_skill) = {5}
  /\ PerKeywordPart = use_case_match + tag_match

\* C23: no outcome of the extraction for one skill (an exception of the
\* client, a text that is no JSON, a JSON list or string, an object with
\* ill-typed fields) makes an exception leave generate_index: the loop goes
\* on and the artifact is written.
C23_ExtractionNeverAbortsBatch == gen_pc # "raised"

\* the file generate_index writes its index to
ArtifactPath == IF HAS_YAML THEN output_path ELSE WithSuffixJson(output_path)

\* C24: after a run with a filter over an existing artifact, every entry
\* of the artifact under a name that is not in the filter is what it was
\* before the run.
C24_UntargetedEntriesKept ==
  (gen_pc = "returned" /\ skills_filter # {}
     /\ files_before[ArtifactPath].state = "index")
    => /\ files[ArtifactPath].state = "index"
       /\ \A n \in GenNames \ skills_filter :
            files_before[ArtifactPath].skills[n].present
              => files[ArtifactPath].skills[n] = files_before[ArtifactPath].skills[n]

\* the positions of gen_out that hold a marker of a kind for a name
MarkersOf(kind, name) ==
  {p \in 1..Len(gen_out) : gen_out[p].kind = kind /\ gen_out[p].name = name}

\* C25: in a verbose run that has ended, every skill of the loop has one
\* PROGRESS marker, numbered by its place in the loop, before all its
\* requests, and one STATUS marker after them and before the next skill's
\* PROGRESS; COMPLETE is printed once, last.
C25_MarkersInOrder ==
  (verbose /\ gen_pc \in {"returned", "raised"} /\ gen_skills # <<>>)
    => /\ \A k \in 1..Len(gen_skills) :
            LET name == gen_skills[k]
            IN /\ Cardinality(MarkersOf("PROGRESS", name)) = 1
               /\ Cardinality(MarkersOf("STATUS", name)) = 1
               /\ \A p \in MarkersOf("PROGRESS", name) :
                    /\ gen_out[p].done = k
                    /\ gen_out[p].total = Len(gen_skills)
                    /\ \A q \in MarkersOf("REQUEST", name) \cup MarkersOf("STATUS", name) :
                         p < q
               /\ \A q \in MarkersOf("STATUS", name) :
                    /\ \A r \in MarkersOf("REQUEST", name) : r < q
                    /\ k < Len(gen_skills)
                         => \A p \in MarkersOf("PROGRESS", gen_skills[k + 1]) : q < p
       /\ Cardinality(MarkersOf("COMPLETE", <<>>)) = 1
       /\ gen_out[Len(gen_out)].kind = "COMPLETE"

\* C26: every STATUS marker has the status OK, FALLBACK or ERROR, also
\* when the filter names a skill that does not exist.
C26_StatusVocabulary ==
  \A p \in 1..Len(gen_out) :
    gen_out[p].kind = "STATUS" => gen_out[p].status \in {"OK", "FALLBACK", "ERROR"}

\* the text of a response parses, once the fence is off, as a JSON object
ParsesAsObject(r) == r.kind = "object"

\* C27: a skill whose response parses as a JSON object, the empty object
\* included, gets an entry made of the object's fields, with priority
\* medium and threshold 0.7 when they are absent, and the status OK;
\* FALLBACK is the status only of a call that failed or a response that
\* did not parse as an object.
C27_ObjectGivesOk ==
  gen_pc \in {"returned", "raised"} =>
    \A i \in 1..Len(gen_responses) :
      LET name == gen_responses[i].name
          r == gen_responses[i].response
          fields == r.fields
      IN /\ ParsesAsObject(r) =>
              /\ \E p \in MarkersOf("STATUS", name) : gen_out[p].status = "OK"
              /\ index[name].present
              /\ index[name].priority = Get(fields.priority, "medium")
              /\ index[name].confidence_threshold = Get(fields.confidence_threshold, 70)
              /\ index[name].description = Get(fields.description, <<>>)
              /\ index[name].tags = Get(fields.tags, <<>>)
              /\ index[name].use_cases = Get(fields.use_cases, <<>>)
         /\ (\E p \in MarkersOf("STATUS", name) : gen_out[p].status = "FALLBACK")
              => ~ParsesAsObject(r)

\* the names whose STATUS marker is FALLBACK
FellBack == {n \in GenNames : \E p \in MarkersOf("STATUS", n) : gen_out[p].status = "FALLBACK"}

\* a language tag other than the first that is configured
OtherLanguages == {languages[i] : i \in 2..Len(languages)} \ {languages[1]}

\* what the fallback entry has whatever the name: priority medium, no tags,
\* no use cases, the description "Skill: <name>", an empty list under the
\* configured languages other than the first
FallbackFrame(n) ==
  /\ index[n].present
  /\ index[n].priority = "medium"
  /\ index[n].tags = <<>>
  /\ index[n].use_cases = <<>>
  /\ index[n].description = <<"S", "k", "i", "l", "l", ":", " ">> \o n
  /\ index[n].keywords.kind = "map"
  /\ languages # <<>> => \A l \in OtherLanguages : index[n].keywords.of[l] = << <<>> >>

\* C28 as stated: the fallback entry of a skill has, whatever the name
\* (hyphens included), the name itself as the one keyword of the first
\* configured language.
C28_FallbackKeywordIsName ==
  \A n \in FellBack :
    /\ FallbackFrame(n)
    /\ languages # <<>> => index[n].keywords.of[languages[1]] = << <<n>> >>

\* C28: the fallback entry of a skill has, as the one keyword of the first
\* configured language, the name with every hyphen replaced by a space;
\* with no language configured it has no keyword list at all.
C28_FallbackKeywordIsNameSpaced ==
  \A n \in FellBack :
    /\ FallbackFrame(n)
    /\ languages # <<>> =>
         \E k \in {index[n].keywords.of[languages[1]]} :
           /\ Len(k) = 1 /\ Len(k[1]) = 1 /\ Len(k[1][1]) = Len(n)
           /\ \A i \in 1..Len(n) :
                k[1][1][i] = (IF n[i] = "-" THEN " " ELSE n[i])
    /\ languages = <<>> => \A l \in LanguageTags : index[n].keywords.of[l] = <<>>

\* "my-sk" fell back under the languages spanish, english: its keyword is
\* "my sk" under spanish
C28_Witness ==
  /\ gen_pc = "returned"
  /\ NameMySk \in FellBack
  /\ languages = <<"spanish", "english">>
  /\ index[NameMySk].keywords.of["spanish"] = << <<<<"m", "y", " ", "s", "k">>>> >>
  /\ index[NameMySk].keywords.of["english"] = << <<>> >>

\* C29: the hook process ends with status 0 whatever is on standard input:
\* a text that is no JSON, a JSON list, string or number, an object with no
\* 'prompt' or with one that is no string, and whatever fails in the
\* activator.
C29_HookExitsZero == hook_exit \in {-1, 0}

\* keywords.get(tag, []) of _load_index_yaml, [] when keywords is no mapping
KeywordsGet(keywords, tag) ==
  IF keywords.kind = "map" /\ keywords.of[tag] # <<>> THEN keywords.of[tag][1] ELSE <<>>

\* what _load_index_yaml reads in an entry that generate_index wrote
EntryOfArtifact(e) ==
  Entry(e.priority, e.description, KeywordsGet(e.keywords, "korean"),
        KeywordsGet(e.keywords, "english"), e.tags, e.use_cases,
        Get(e.intent_patterns, <<>>), e.auto_activate, e.confidence_threshold, TRUE)

\* C30: the terms under every language tag of an entry's keyword mapping
\* are in the keyword list _calculate_match_score uses for the record
\* loaded from the entry.
C30_EveryLanguageScores ==
  gen_pc = "returned" =>
    \A n \in GenNames :
      (index[n].present /\ index[n].keywords.kind = "map") =>
        LET skill == LoadIndexEntry(EntryOfArtifact(index[n]), n, 1, "user")
        IN \A l \in LanguageTags : \A i \in 1..Len(KeywordsGet(index[n].keywords, l)) :
             KeywordsGet(index[n].keywords, l)[i] \in Range(SkillKeywords(skill))

\* C31: every layer that renders a score as a percentage (format_suggestion,
\* the classic, required and enhanced hook formatters, the find-skills
\* listing) shows at most 100%, although the score itself is not capped
C31_ShownAtMost100 ==
  \A i \in 1..Len(shown) : shown[i].percent <= 100

\* C32: in enhanced output mode with no required candidate the hook shows
\* min(m, q) skills: m the user's max_suggestions, q the number of
\* auto-activating suggested or optional skills whose score reaches their
\* threshold
Candidates(enforcements) ==
  {i \in 1..Len(considered) :
     Qualifies(considered[i]) /\ skills[considered[i].name].enforcement \in enforcements}
C32_EnhancedShowsMin ==
  (/\ show_layer = "hook"
   /\ user_config.output_format = "enhanced"
   /\ Candidates({"required"}) = {})
  => LET m == user_config.max_suggestions
         q == Cardinality(Candidates({"suggested", "optional"}))
     IN Len(shown) = IF m < q THEN m ELSE q

\* C33: one generate call issues at most max_retries requests at each
\* position of the candidate list, hence at most max_retries * (1 + number
\* of fallback models) in all; a call that returned did so on its last
\* request and takes no further step; and a running call always ends,
\* returning or raising
Running == pc \in {"gate", "request", "except"}
RequestsBounded ==
  /\ \A i \in 1..Len(models_to_try) : Cardinality(RequestsAt(i)) <= config.max_retries
  /\ Len(RequestsAfter(0)) <= config.max_retries * (1 + Len(config.fallback_models))
  /\ pc = "returned" => trace # <<>> /\ IsRequest(Len(trace))
C33_BoundedAndTerminates ==
  /\ []RequestsBounded
  /\ [][pc \notin {"returned", "raised"}]_vars
  /\ Running ~> (pc \in {"returned", "raised"})

C33_Witness ==
  /\ pc = "raised"
  /\ config.max_retries = MaxRetries
  /\ Len(models_to_try) = 1 + MaxFallbacks
  /\ Len(RequestsAfter(0)) = MaxRetries * (1 + MaxFallbacks)

\* C34: the except clause of generate takes the first branch that applies,
\* in the order rate-limited, not-found, server error, other: an error with
\* a rate-limit and a not-found signal is slept on for
\* retry_delay * (retry + 1) * 2 and the same model is retried while
\* retries remain; an error with a not-found and a 5xx signal (and no
\* rate-limit signal) is not slept on and the model is abandoned
HandledAsRateLimited ==
  /\ clock' = clock + config.retry_delay * (retry + 1) * 2
  /\ retry + 1 < config.max_retries
     => pc' = "gate" /\ model_idx' = model_idx /\ retry' = retry + 1
HandledAsNotFound ==
  /\ clock' = clock
  /\ \/ pc' = "gate" /\ model_idx' = model_idx + 1 /\ retry' = 0
     \/ pc' = "raised" /\ model_idx = Len(models_to_try)
C34_FirstMatchClassification ==
  [][pc = "except" =>
       /\ (exc.rate /\ exc.notfound) => HandledAsRateLimited
       /\ (~exc.rate /\ exc.notfound /\ exc.server) => HandledAsNotFound]_vars

C34_Witness ==
  /\ last_failure.valid
  /\ last_failure.error = Exc(TRUE, TRUE, FALSE)
  /\ pc = "gate"
  /\ model_idx = last_failure.idx
  /\ retry = last_failure.retry + 1

\* C35: intent-pattern matching never raises and its bonus is added at
\* most once: whatever the list of intent patterns, a pattern that fails to
\* compile is skipped, and the score of a query that has keywords gains
\* exactly 2 * exact_match if at least one pattern matches the raw query
\* and nothing otherwise
SomePatternMatches ==
  \E k \in 1..Len(scored_skill.intent_patterns) :
    PatternMatches(scored_skill.intent_patterns[k], score_message)
C35_IntentBonusOnceNeverRaises ==
  (scored /\ scored_skill.intent_patterns # <<>> /\ score_keywords # <<>>)
  => /\ ~score_raised
     /\ score_after - score_before = IF SomePatternMatches THEN exact_match * 2 ELSE 0

\* C36: the directories are discovered in the order project (.claude/skills
\* before skills), user, system, custom, those that do not exist left out,
\* and merged lowest priority first: when documents of several directories
\* define a name, the record's source, path, enforcement and description
\* are those of the document of the highest-priority directory, and so is
\* the whole record when no artifact entry was merged into it afterwards
Rank(source) ==
  CASE source = "project" -> 1
    [] source = "user" -> 2
    [] source = "system" -> 3
    [] OTHER -> 4
DefinedAt(n) == {i \in 1..Len(skill_paths) : fs[i][n].doc.present}
TopOf(n) == CHOOSE i \in DefinedAt(n) : \A j \in DefinedAt(n) : i <= j
C36_HighestPriorityDocumentWins ==
  /\ \A i, j \in 1..Len(skill_paths) : i < j => Rank(skill_paths[i]) <= Rank(skill_paths[j])
  /\ phase \in {"docs", "index", "done"} => skill_paths \in SubSeqsOf(AllDirectories)
  /\ phase = "done" =>
       \A n \in Names :
         DefinedAt(n) # {} =>
           LET top == TopOf(n)
               doc == LoadSkillFromDirectory(fs[top][n].doc, n, top, skill_paths[top])
           IN /\ skills[n].source = skill_paths[top]
              /\ skills[n].path = doc.path
              /\ skills[n].enforcement = doc.enforcement
              /\ skills[n].description = doc.description
              /\ (\A i \in 1..top : ~fs[i][n].entry.present) => skills[n] = doc

C36_Witness ==
  /\ phase = "done"
  /\ Len(skill_paths) = 6
  /\ \E n \in Names :
       /\ DefinedAt(n) = {2, 3, 6}
       /\ fs[2][n].doc # fs[3][n].doc
       /\ fs[3][n].entry.present
       /\ ~fs[2][n].entry.present /\ ~fs[1][n].entry.present
       /\ skills[n].source = "project"

\* the keywords of a text when a particle is cut off a token under the
\* given condition: of the particles the token ends with and that meet the
\* condition, the first in list order, and no second one; then the
\* stopword test
StrippedWhen(w, Applies(_, _)) ==
  LET ks == {k \in 1..Len(KOREAN_PARTICLES) :
               EndsWith(w, KOREAN_PARTICLES[k]) /\ Applies(w, KOREAN_PARTICLES[k])}
  IN IF ks = {} THEN w
     ELSE LET k == CHOOSE i \in ks : \A j \in ks : i <= j
          IN SubSeq(w, 1, Len(w) - Len(KOREAN_PARTICLES[k]))
KeywordsWhen(text, Applies(_, _)) ==
  LET tokens == SelectSeq(Split(Normalized(text)), LAMBDA w : Len(w) >= 2)
      cut == [i \in 1..Len(tokens) |-> StrippedWhen(tokens[i], Applies)]
  IN SelectSeq(cut, LAMBDA w : w # <<>> /\ w \notin STOPWORDS)
RemainderLongerThanParticle(w, particle) == Len(w) - Len(particle) > Len(particle)

\* C37: a trailing particle is stripped from a token only if the remainder
\* would be longer than the particle itself (more than two characters for
\* a two-character particle), and at most one particle, the first in list
\* order that applies, is stripped per token before the stopword test
C37_StripIfRemainderLonger ==
  extract_done => extracted = KeywordsWhen(extract_text, RemainderLongerThanParticle)

\* every record of the registry is under its own name
KeyedByName == \A n \in DOMAIN skills : skills[n].present => skills[n].name = n

\* a step that merges an artifact entry into the record of its name: the
\* entry is read in this step and the record was there before
MergesInto(n) ==
  /\ phase = "index"
  /\ skills[n].present
  /\ ~fs[pos][n].entry.present
  /\ fs'[pos][n].entry.present

\* C38: merging an artifact entry into an existing record leaves the
\* record's name, path, source tier, enforcement and description as they
\* were, whatever the entry holds (also when the record's description is
\* empty and the entry's is not), and the registry keeps one record per
\* name, under that record's name
C38_MergeLeavesIdentityAlone ==
  /\ []KeyedByName
  /\ [][\A n \in Names :
          MergesInto(n) =>
            /\ skills'[n].present
            /\ skills'[n].name = skills[n].name
            /\ skills'[n].path = skills[n].path
            /\ skills'[n].source = skills[n].source
            /\ skills'[n].enforcement = skills[n].enforcement
            /\ skills'[n].description = skills[n].description]_vars

\* a record of a custom directory that has no description, after a
\* project artifact's entry that has a description, another enforcement
\* and another path was merged into it
C38_Witness ==
  /\ phase = "index"
  /\ \E n \in Names :
       /\ fs[pos][n].entry.present
       /\ fs[pos][n].entry.description # <<>>
       /\ fs[pos][n].entry.enforcement = "required"
       /\ skill_paths[pos] = "project"
       /\ skills[n].source = "custom"
       /\ skills[n].description = <<>>
       /\ skills[n].enforcement = "suggested"
       /\ skills[n].path # <<pos>>
       /\ skills[n].keywords_korean = <<"kr">>

\* the calls of client.generate made for a skill so far
CallsFor(n) == Cardinality({i \in 1..Len(gen_responses) : gen_responses[i].name = n})

\* the loop is past the skill at position i of the skills found
Processed(i) == gen_pc = "returned" \/ i < gen_i

\* C39: generate_index calls client.generate once for each skill whose
\* document was read and never for a skill whose document could not be
\* read; after an answer that is no JSON the skill gets the fallback entry
\* and no second call
C39_GenerateOncePerReadSkill ==
  /\ \A n \in GenNames :
       /\ CallsFor(n) <= 1
       /\ (n \in unreadable \/ n \notin Range(gen_skills)) => CallsFor(n) = 0
  /\ \A i \in 1..Len(gen_skills) :
       (Processed(i) /\ gen_skills[i] \notin unreadable) => CallsFor(gen_skills[i]) = 1
  /\ \A i \in 1..Len(gen_responses) :
       LET r == gen_responses[i]
       IN (r.response.kind # "exception" /\ JsonDecodeError(StripFence(r.response)))
            => index[r.name] = FallbackEntry(r.name, languages)

\* a run over an unreadable skill and a skill the AI answered with a text
\* that is no JSON: no call for the first, one for the second, which has
\* the fallback entry in the index written
C39_Witness ==
  /\ gen_pc = "returned"
  /\ gen_skills = <<NameAb, NameMySk>>
  /\ unreadable = {NameAb}
  /\ CallsFor(NameAb) = 0
  /\ gen_responses = <<[name |-> NameMySk, response |-> Response("not_json", FALSE, NoFields)]>>
  /\ index[NameMySk] = FallbackEntry(NameMySk, languages)

=============================================================================
